---- MODULE Spec2Model ----
(***************************************************************************)
(* Models of the programs under src/Algorithms and src/Tasks.              *)
(*                                                                         *)
(* bfs_breadth-first-search/bfs.cpp: the run of main() (open the two       *)
(* streams, read the header and the edge list, build the Graph,            *)
(* BreadthFirstSearch, PrintDistances, exit) as a state machine whose      *)
(* steps are the statements of the source.  The contents of bfs.in are     *)
(* supplied token by token by the environment at the extraction that       *)
(* consumes them; the program keeps no copy of its input.                  *)
(*                                                                         *)
(* binary_search/cautbin.cpp, eratosthenes_sieve/ciur.cpp,                 *)
(* fast_exponential/lgput.cpp and euclid_extended/euclid3.cpp: each        *)
(* program's main() and the function it calls, one record variable per     *)
(* program, each with a specification of its own (SpecCautbin, SpecCiur,   *)
(* SpecLgput, SpecEuclid3) in which the other programs do not run.         *)
(*                                                                         *)
(* prime_factorisation/divmul.cpp (SpecDivmul), Tasks/text3/text3.cpp      *)
(* (SpecText3), Tasks/text4/text4.cpp (SpecText4) and                      *)
(* A+B (adunare)/adunare.cpp (SpecAdunare) are modelled the same way: one  *)
(* record variable per program, the input file drawn from a bounded set,   *)
(* one action per statement or branch of main() and of its callees.        *)
(***************************************************************************)
EXTENDS Integers, Sequences, FiniteSets, TLC

\* Bounds of the model: vertex and edge counts offered by a well-formed
\* bfs.in, and by a malformed one (a non-numeric token or an early end).
MaxN == 4
MaxM == 3
MaxBadN == 2
MaxBadM == 2

\* Vertex::distance's initial value, "not visited".
UNKNOWN == -1

VARIABLES
    pc,                 \* position of main()
    inputKind,          \* what bfs.in holds: "wellformed" or "malformed"
    io_IN,              \* io.IN : [open, fail, eof]
    io_OUT,             \* io.OUT: [open, fail]
    destroyed,          \* IO::is_instance_destroyed()
    outFile,            \* the characters bfs.out holds
    ioLog,              \* history: GetInstance calls, open() and close() calls,
                        \* extractions, insertions, accesses to a dead stream
    NumberOfVertices,
    NumberOfEdges,
    SourceVertex,
    edge_i,             \* main's loop counter i over the edge pairs
    edges,              \* Vertex::edges of every slot: slot -> Seq(destination id)
    distance,           \* Vertex::distance of every slot
    vertex_queue,       \* BreadthFirstSearch's queue, front first
    current_vertex,     \* BreadthFirstSearch's current_vertex (a slot id)
    i,                  \* BreadthFirstSearch's inner loop counter
    run,                \* how many BreadthFirstSearch calls were started
    edgeList,           \* history: the set of <<origin, destination>> pairs read
    pushes,             \* history: pushes of each slot in the current call
    firstDistance,      \* history: the distances the first call left
    cautbin,            \* the run of binary_search/cautbin.cpp
    ciur,               \* the run of eratosthenes_sieve/ciur.cpp
    lgput,              \* the run of fast_exponential/lgput.cpp
    euclid3,            \* the run of euclid_extended/euclid3.cpp
    divmul,             \* the run of prime_factorisation/divmul.cpp
    text3,              \* the run of Tasks/text3/text3.cpp
    text4,              \* the run of Tasks/text4/text4.cpp
    adunare             \* the run of A+B (adunare)/adunare.cpp

vars == <<pc, inputKind, io_IN, io_OUT, destroyed, outFile, NumberOfVertices,
          NumberOfEdges, SourceVertex, edge_i, edges, distance, vertex_queue,
          current_vertex, i, run, edgeList, pushes, firstDistance, ioLog,
          cautbin, ciur, lgput, euclid3, divmul, text3, text4, adunare>>

ioVars == <<io_IN, io_OUT, destroyed, outFile, ioLog>>
furtherPrograms == <<divmul, text3, text4, adunare>>
otherPrograms == <<cautbin, ciur, lgput, euclid3, furtherPrograms>>
headerVars == <<NumberOfVertices, NumberOfEdges, SourceVertex>>
graphVars == <<edges, distance, edgeList>>
bfsVars == <<vertex_queue, current_vertex, i, run, pushes, firstDistance>>

----------------------------------------------------------------------------
\* The input stream: formatted extraction of an unsigned int.

NumToken(v) == [kind |-> "num", val |-> v]
BadToken == [kind |-> "bad", val |-> 0]
EofToken == [kind |-> "eof", val |-> 0]

\* The tokens the environment may offer where a number of `range` is expected.
\* A stream whose failbit is set consumes nothing, whatever the file holds.
Tokens(stream, range) ==
    IF stream.fail
    THEN {EofToken}
    ELSE {NumToken(v) : v \in range}
            \cup (IF inputKind = "malformed" THEN {BadToken, EofToken} ELSE {})

\* The values a variable declared without an initialiser may hold when the
\* extraction leaves it alone; when the extraction stores a value, what the
\* variable held does not matter.
Indeterminate(stream, tok, range) ==
    IF stream.fail \/ tok.kind = "eof" THEN range ELSE {0}

BoundN == IF inputKind = "malformed" THEN MaxBadN ELSE MaxN
BoundM == IF inputKind = "malformed" THEN MaxBadM ELSE MaxM

\* io.IN >> x, where x held `old` (indeterminate when x was never written).
\* A stream whose failbit is set extracts nothing and leaves x alone; at the
\* end of the input the sentry sets eofbit and failbit and x is left alone; a
\* non-numeric token sets failbit and stores 0; a number is stored.
Extract(stream, tok, old) ==
    IF stream.fail
    THEN [stream |-> stream, val |-> old]
    ELSE IF tok.kind = "eof"
    THEN [stream |-> [stream EXCEPT !.fail = TRUE, !.eof = TRUE], val |-> old]
    ELSE IF tok.kind = "bad"
    THEN [stream |-> [stream EXCEPT !.fail = TRUE], val |-> 0]
    ELSE [stream |-> stream, val |-> tok.val]

----------------------------------------------------------------------------
\* Graph and Vertex.

Slots(n) == 0 .. n

\* Graph::Graph(_size): _size + 1 vertices, ids 0.._size, no edges, distance -1.
GraphEdges(n) == [v \in Slots(n) |-> <<>>]
GraphDistance(n) == [v \in Slots(n) |-> UNKNOWN]

\* Graph::AddVertex / Vertex::AddVertex: one Edge appended to the origin's list.
AddVertexMutant(e, origin, destination) ==
    LET forward == [e EXCEPT ![origin] = Append(@, destination)]
    IN  [forward EXCEPT ![destination] = Append(@, origin)]

AddVertex(e, origin, destination) ==
    [e EXCEPT ![origin] = Append(@, destination)]

\* Graph::GetNumberOfVertices: vertices.size() - 1.
GetNumberOfVertices == Cardinality(DOMAIN distance) - 1

\* Vertex::GetNumberOfEdges and Vertex::operator[] (0-based index).
EdgesSizeMutant(list) == IF list = <<>> THEN 0 ELSE Len(list) - 1

EdgesSize(list) == Len(list)

GetNumberOfEdges(v) == EdgesSize(edges[v])

EdgeDestination(v, index) == edges[v][index + 1]

\* BreadthFirstSearch's "source_vertex->distance = 0".
SourceDistanceMutant == UNKNOWN

SourceDistance == 0

\* BreadthFirstSearch's test "neighbour_vertex->distance != -1".
VisitedMutant(d) == d > 0

Visited(d) == d # UNKNOWN

\* BreadthFirstSearch's "current_vertex->distance + 1".
NextDistanceMutant(d) == d

NextDistance(d) == d + 1

\* std::queue: push at the back, front(), pop() from the front.
QueuePushMutant(q, v) == <<v>> \o q

QueuePush(q, v) == Append(q, v)
QueueFront(q) == Head(q)

QueuePopMutant(q) == q

QueuePop(q) == Tail(q)

----------------------------------------------------------------------------
\* std::ostringstream as PrintDistances uses it: a character buffer, the put
\* position (an offset from the start) and the failbit.

DigitChars == <<"0", "1", "2", "3", "4", "5", "6", "7", "8", "9">>

RECURSIVE FormatNat(_)
FormatNat(n) ==
    IF n < 10
    THEN <<DigitChars[n + 1]>>
    ELSE FormatNat(n \div 10) \o <<DigitChars[(n % 10) + 1]>>

\* operator<<(int): decimal digits, a leading '-' for a negative value.
FormatInt(n) == IF n < 0 THEN <<"-">> \o FormatNat(-n) ELSE FormatNat(n)

NewStream == [buf |-> <<>>, pos |-> 0, fail |-> FALSE]

\* operator<< of characters: nothing when failbit is set, else the characters
\* are stored at the put position (overwriting, then extending the buffer).
Insert(os, chars) ==
    IF os.fail
    THEN os
    ELSE LET end == os.pos + Len(chars)
         IN  [buf  |-> SubSeq(os.buf, 1, os.pos) \o chars
                         \o SubSeq(os.buf, end + 1, Len(os.buf)),
              pos  |-> end,
              fail |-> FALSE]

\* seekp(pos_type): an absolute position; a position outside the buffer
\* makes the seek fail, which sets failbit and moves nothing.
Seekp(os, position) ==
    IF os.fail
    THEN os
    ELSE IF 0 <= position /\ position <= Len(os.buf)
    THEN [os EXCEPT !.pos = position]
    ELSE [os EXCEPT !.fail = TRUE]

\* The vertex ids PrintDistances' loop visits: i = 1 .. GetNumberOfVertices().
PrintedIdsMutant(n) == 0 .. n

PrintedIds(n) == 1 .. n

\* The loop of PrintDistances up to and including vertex id `last`.
RECURSIVE PrintLoop(_, _)
PrintLoop(os, last) ==
    IF last \notin PrintedIds(GetNumberOfVertices)
    THEN os
    ELSE Insert(Insert(PrintLoop(os, last - 1), FormatInt(distance[last])),
                <<" ">>)

\* Graph::PrintDistances: the loop, out.seekp(-1), out << "\n", out.str().
PrintDistances ==
    Insert(Seekp(PrintLoop(NewStream, GetNumberOfVertices), -1), <<"\n">>).buf

----------------------------------------------------------------------------
\* main().

ClosedInput == [open |-> FALSE, fail |-> FALSE, eof |-> FALSE]
ClosedOutput == [open |-> FALSE, fail |-> FALSE]

\* What bfs.out holds before the run: the line an earlier run left there.
StaleOutput == <<"0", "\n">>

NewLog == [calls |-> 0, opensIN |-> 0, opensOUT |-> 0, closesIN |-> 0,
           closesOUT |-> 0, reads |-> 0, writes |-> 0, misuse |-> FALSE]

\* A program of the repository that is not the one being run.
NotRunning == [pc |-> "off"]

FurtherProgramsNotRunning ==
    /\ divmul = NotRunning
    /\ text3 = NotRunning
    /\ text4 = NotRunning
    /\ adunare = NotRunning

OtherProgramsNotRunning ==
    /\ cautbin = NotRunning
    /\ ciur = NotRunning
    /\ lgput = NotRunning
    /\ euclid3 = NotRunning
    /\ FurtherProgramsNotRunning

BfsBeforeMain ==
    /\ io_IN = ClosedInput
    /\ io_OUT = ClosedOutput
    /\ destroyed = FALSE
    /\ outFile = StaleOutput
    /\ ioLog = NewLog
    /\ NumberOfVertices = 0
    /\ NumberOfEdges = 0
    /\ SourceVertex = 0
    /\ edge_i = 0
    /\ edges = <<>>
    /\ distance = <<>>
    /\ edgeList = {}
    /\ vertex_queue = <<>>
    /\ current_vertex = 0
    /\ i = 0
    /\ run = 0
    /\ pushes = <<>>
    /\ firstDistance = <<>>

BfsNotRunning ==
    /\ pc = "off"
    /\ inputKind = "wellformed"
    /\ BfsBeforeMain

Init ==
    /\ pc = "start"
    /\ inputKind \in {"wellformed", "malformed"}
    /\ BfsBeforeMain
    /\ OtherProgramsNotRunning

\* assert(stream): the run is aborted when the stream tests false (the source
\* does not define NDEBUG).
AssertionFailsMutant(streamGood) == FALSE

AssertionFails(streamGood) == ~streamGood

\* static IO io_Instance(...): the constructor runs in the first call only.
ConstructsInstanceMutant(calls) == TRUE

ConstructsInstance(calls) == calls = 0

\* IO::IO: GetInputStream(input_file_name), then GetOutputStream(
\* output_file_name).  An open that fails leaves failbit set; PrintError
\* reports it and assert(IN) / assert(OUT) ends the run.  std::ofstream::open
\* truncates the file it opens.
IO(resume) ==
    \E inputOpens \in BOOLEAN, outputOpens \in BOOLEAN :
        /\ io_IN' = IF inputOpens THEN [io_IN EXCEPT !.open = TRUE]
                                  ELSE [io_IN EXCEPT !.fail = TRUE]
        /\ IF AssertionFails(inputOpens)
           THEN /\ pc' = "aborted"
                /\ ioLog' = [ioLog EXCEPT !.calls = @ + 1, !.opensIN = @ + 1]
                /\ UNCHANGED <<io_OUT, outFile>>
           ELSE /\ io_OUT' = IF outputOpens THEN [io_OUT EXCEPT !.open = TRUE]
                                            ELSE [io_OUT EXCEPT !.fail = TRUE]
                /\ outFile' = IF outputOpens THEN <<>> ELSE outFile
                /\ ioLog' = [ioLog EXCEPT !.calls = @ + 1, !.opensIN = @ + 1,
                                          !.opensOUT = @ + 1]
                /\ pc' = IF AssertionFails(outputOpens) THEN "aborted"
                                                        ELSE resume

\* IO::GetInstance(input_file_name, output_file_name), the caller going on at
\* `resume`: the constructor in the first call, then the dead-reference test.
GetInstanceCall(resume) ==
    IF ConstructsInstance(ioLog.calls)
    THEN IO(resume)
    ELSE /\ ioLog' = [ioLog EXCEPT !.calls = @ + 1]
         /\ pc' = IF AssertionFails(~destroyed) THEN "aborted" ELSE resume
         /\ UNCHANGED <<io_IN, io_OUT, outFile>>

\* IO& io = IO::GetInstance("bfs.in", "bfs.out"), main's first statement.
GetInstance ==
    /\ pc = "start"
    /\ GetInstanceCall("header")
    /\ UNCHANGED <<otherPrograms, inputKind, destroyed, headerVars, edge_i,
                   graphVars, bfsVars>>

\* An extraction from io.IN or an insertion into io.OUT, entered in the log:
\* `misuse` records an access to a stream that is not open, or made after the
\* instance was marked destroyed.
LogRead(log, count) ==
    [log EXCEPT !.reads = @ + count,
                !.misuse = @ \/ ~io_IN.open \/ destroyed]

LogWrite(log) ==
    [log EXCEPT !.writes = @ + 1,
                !.misuse = @ \/ ~io_OUT.open \/ destroyed]

\* io.IN >> NumberOfVertices >> NumberOfEdges >> SourceVertex.  The three
\* variables are declared without a value: an extraction that leaves one
\* alone leaves it indeterminate (any value of the model's range).
ReadHeader ==
    /\ pc = "header"
    /\ \E t1 \in Tokens(io_IN, 1 .. BoundN) :
       \E u1 \in Indeterminate(io_IN, t1, 0 .. BoundN) :
        LET r1 == Extract(io_IN, t1, u1) IN
        \E t2 \in Tokens(r1.stream, 0 .. BoundM) :
        \E u2 \in Indeterminate(r1.stream, t2, 0 .. BoundM) :
            LET r2 == Extract(r1.stream, t2, u2) IN
            \E t3 \in Tokens(r2.stream, 1 .. r1.val) :
            \E u3 \in Indeterminate(r2.stream, t3, 0 .. r1.val + 1) :
                LET r3 == Extract(r2.stream, t3, u3) IN
                /\ NumberOfVertices' = r1.val
                /\ NumberOfEdges' = r2.val
                /\ SourceVertex' = r3.val
                /\ io_IN' = r3.stream
    /\ ioLog' = LogRead(ioLog, 3)
    /\ pc' = "construct"
    /\ UNCHANGED <<otherPrograms, inputKind, io_OUT, destroyed, outFile, edge_i, graphVars,
                   bfsVars>>

\* const Graph graph(NumberOfVertices); and the edge loop's i = 0.
Construct ==
    /\ pc = "construct"
    /\ edges' = GraphEdges(NumberOfVertices)
    /\ distance' = GraphDistance(NumberOfVertices)
    /\ edge_i' = 0
    /\ pc' = "edges"
    /\ UNCHANGED <<otherPrograms, inputKind, ioVars, headerVars, edgeList, bfsVars>>

\* One turn of the edge loop: io.IN >> origin >> destination, then
\* graph.AddVertex(origin, destination).  origin and destination are declared
\* without a value.  vertices[id] with an id past the last slot is undefined
\* behaviour; the outcome kept here is the run being killed.
ReadEdge ==
    /\ pc = "edges"
    /\ edge_i < NumberOfEdges
    /\ \E t1 \in Tokens(io_IN, 1 .. NumberOfVertices) :
       \E u1 \in Indeterminate(io_IN, t1, 0 .. NumberOfVertices + 1) :
        LET r1 == Extract(io_IN, t1, u1) IN
        \E t2 \in Tokens(r1.stream, 1 .. NumberOfVertices) :
        \E u2 \in Indeterminate(r1.stream, t2, 0 .. NumberOfVertices + 1) :
            LET r2 == Extract(r1.stream, t2, u2)
                origin == r1.val
                destination == r2.val
            IN  /\ io_IN' = r2.stream
                /\ ioLog' = LogRead(ioLog, 2)
                /\ IF origin \in DOMAIN edges /\ destination \in DOMAIN edges
                   THEN /\ edges' = AddVertex(edges, origin, destination)
                        /\ edgeList' = edgeList \cup {<<origin, destination>>}
                        /\ edge_i' = edge_i + 1
                        /\ pc' = "edges"
                   ELSE /\ pc' = "crashed"
                        /\ UNCHANGED <<edges, edgeList, edge_i>>
    /\ UNCHANGED <<otherPrograms, inputKind, io_OUT, destroyed, outFile, headerVars, distance,
                   bfsVars>>

\* The first four statements of BreadthFirstSearch(_source_vertex_id).
EnterBreadthFirstSearch(source) ==
    /\ distance' = [distance EXCEPT ![source] = SourceDistance]
    /\ vertex_queue' = QueuePush(<<>>, source)
    /\ pushes' = [v \in DOMAIN distance |-> IF v = source THEN 1 ELSE 0]
    /\ run' = run + 1
    /\ pc' = "while"

\* The edge loop ends and main calls graph.BreadthFirstSearch(SourceVertex).
CallBreadthFirstSearch ==
    /\ pc = "edges"
    /\ edge_i >= NumberOfEdges
    /\ IF SourceVertex \in DOMAIN distance
       THEN /\ EnterBreadthFirstSearch(SourceVertex)
            /\ UNCHANGED firstDistance
       ELSE /\ pc' = "crashed"
            /\ UNCHANGED <<distance, vertex_queue, pushes, run, firstDistance>>
    /\ UNCHANGED <<otherPrograms, inputKind, ioVars, headerVars, edge_i, edges, edgeList,
                   current_vertex, i>>

\* while (!vertex_queue.empty()): front(), pop(), and the inner loop's i = 0.
Dequeue ==
    /\ pc = "while"
    /\ vertex_queue # <<>>
    /\ current_vertex' = QueueFront(vertex_queue)
    /\ vertex_queue' = QueuePop(vertex_queue)
    /\ i' = 0
    /\ pc' = "for"
    /\ UNCHANGED <<otherPrograms, inputKind, ioVars, headerVars, edge_i, graphVars, run,
                   pushes, firstDistance>>

\* One turn of the inner loop: the i-th edge of current_vertex.
VisitNeighbour ==
    /\ pc = "for"
    /\ i < GetNumberOfEdges(current_vertex)
    /\ LET neighbour_vertex == EdgeDestination(current_vertex, i) IN
        IF Visited(distance[neighbour_vertex])
        THEN UNCHANGED <<distance, vertex_queue, pushes>>
        ELSE /\ distance' = [distance EXCEPT ![neighbour_vertex] =
                                NextDistance(distance[current_vertex])]
             /\ vertex_queue' = QueuePush(vertex_queue, neighbour_vertex)
             /\ pushes' = [pushes EXCEPT ![neighbour_vertex] = @ + 1]
    /\ i' = i + 1
    /\ UNCHANGED <<otherPrograms, pc, inputKind, ioVars, headerVars, edge_i, edges, edgeList,
                   current_vertex, run, firstDistance>>

\* The inner loop ends: back to the while test.
EndNeighbours ==
    /\ pc = "for"
    /\ i >= GetNumberOfEdges(current_vertex)
    /\ pc' = "while"
    /\ UNCHANGED <<otherPrograms, inputKind, ioVars, headerVars, edge_i, graphVars, bfsVars>>

\* The queue is empty: BreadthFirstSearch returns.
ReturnFromBreadthFirstSearch ==
    /\ pc = "while"
    /\ vertex_queue = <<>>
    /\ pc' = "print"
    /\ UNCHANGED <<otherPrograms, inputKind, ioVars, headerVars, edge_i, graphVars, bfsVars>>

\* io.OUT << graph.PrintDistances().
WriteDistances ==
    /\ pc = "print"
    /\ outFile' = IF io_OUT.open /\ ~io_OUT.fail
                  THEN outFile \o PrintDistances
                  ELSE outFile
    /\ ioLog' = LogWrite(ioLog)
    /\ pc' = "return"
    /\ UNCHANGED <<otherPrograms, inputKind, io_IN, io_OUT, destroyed, headerVars, edge_i,
                   graphVars, bfsVars>>

\* return 0, then the static instance's destructor: the flag, Close_IN, Close_OUT.
ReturnFromMain ==
    /\ pc = "return"
    /\ destroyed' = TRUE
    /\ io_IN' = [io_IN EXCEPT !.open = FALSE]
    /\ io_OUT' = [io_OUT EXCEPT !.open = FALSE]
    /\ ioLog' = [ioLog EXCEPT !.closesIN = @ + 1, !.closesOUT = @ + 1]
    /\ pc' = "done"
    /\ UNCHANGED <<otherPrograms, inputKind, outFile, headerVars, edge_i, graphVars, bfsVars>>

\* A caller's second graph.BreadthFirstSearch(SourceVertex) on the same Graph,
\* made when the first call has returned and nothing else was touched.
CallBreadthFirstSearchAgain ==
    /\ pc = "print"
    /\ run = 1
    /\ firstDistance' = distance
    /\ EnterBreadthFirstSearch(SourceVertex)
    /\ UNCHANGED <<otherPrograms, inputKind, ioVars, headerVars, edge_i, edges, edgeList,
                   current_vertex, i>>

Next ==
    \/ GetInstance
    \/ ReadHeader
    \/ Construct
    \/ ReadEdge
    \/ CallBreadthFirstSearch
    \/ Dequeue
    \/ VisitNeighbour
    \/ EndNeighbours
    \/ ReturnFromBreadthFirstSearch
    \/ WriteDistances
    \/ ReturnFromMain

Spec == Init /\ [][Next]_vars

\* The program is the only process: a step of BreadthFirstSearch that can be
\* taken is taken.
BreadthFirstSearchStep ==
    \/ Dequeue
    \/ VisitNeighbour
    \/ EndNeighbours
    \/ ReturnFromBreadthFirstSearch

FairSpec == Spec /\ WF_vars(BreadthFirstSearchStep)

NextRerun == Next \/ CallBreadthFirstSearchAgain

SpecRerun == Init /\ [][NextRerun]_vars

\* A caller's second IO::GetInstance("bfs.in", "bfs.out"), made before the
\* distances are written.
GetInstanceAgain ==
    /\ pc = "print"
    /\ ioLog.calls = 1
    /\ GetInstanceCall("print")
    /\ UNCHANGED <<otherPrograms, inputKind, destroyed, headerVars, edge_i,
                   graphVars, bfsVars>>

NextAgain == Next \/ GetInstanceAgain

SpecAgain == Init /\ [][NextAgain]_vars

----------------------------------------------------------------------------
\* What the claims speak of, computed from the pairs read and not from the
\* program's adjacency lists or queue.

Successors(S) == {e[2] : e \in {x \in edgeList : x[1] \in S}}

\* <<W0, ..., Wk>>: Wj is the set of vertices at which a directed walk of
\* exactly j edges from s can end.
RECURSIVE WalkEnds(_, _)
WalkEnds(s, k) ==
    IF k = 0
    THEN <<{s}>>
    ELSE LET shorter == WalkEnds(s, k - 1)
         IN  Append(shorter, Successors(shorter[k]))

\* For every slot v, the lengths of the directed walks from s to v; a
\* shortest path visits no slot twice, so it has at most NumberOfVertices
\* edges.
PathLengths(s) ==
    LET ends == WalkEnds(s, NumberOfVertices)
    IN  [v \in Slots(NumberOfVertices) |->
            {k \in 0 .. NumberOfVertices : v \in ends[k + 1]}]

Minimum(S) == CHOOSE x \in S : \A y \in S : x <= y

\* BreadthFirstSearch has been entered / has returned.
Entered == pc \in {"while", "for", "print", "return", "done"}
Returned == pc \in {"print", "return", "done"}
Written == pc \in {"return", "done"}

\* C1: after BreadthFirstSearch(s), every vertex reachable from s has the
\* minimum number of edges over all directed paths from s as its distance.
C1_ShortestDistances ==
    Returned =>
        LET lengths == PathLengths(SourceVertex)
        IN  \A v \in DOMAIN distance :
                lengths[v] # {} => distance[v] = Minimum(lengths[v])

\* A well-formed run has returned and some vertex that a one-edge and a
\* two-edge path both reach was given distance 1.
C1_Witness ==
    /\ Returned
    /\ inputKind = "wellformed"
    /\ \E v \in 1 .. NumberOfVertices :
        /\ {1, 2} \subseteq PathLengths(SourceVertex)[v]
        /\ distance[v] = 1

\* C2: after BreadthFirstSearch(s), a vertex of 1..N has distance -1 exactly
\* when no directed path leads from s to it.
C2_UnknownIffUnreachable ==
    Returned =>
        LET lengths == PathLengths(SourceVertex)
        IN  \A v \in 1 .. NumberOfVertices :
                (distance[v] = UNKNOWN) <=> (lengths[v] = {})

\* An edge leads from a vertex left at -1 into a vertex that was reached: it
\* was not followed backwards.
C2_Witness ==
    /\ Returned
    /\ inputKind = "wellformed"
    /\ \E e \in edgeList :
        /\ distance[e[1]] = UNKNOWN
        /\ distance[e[2]] # UNKNOWN

\* C3: from the first step of BreadthFirstSearch on, the source has distance 0.
C3_SourceDistanceZero ==
    Entered => distance[SourceVertex] = 0

\* The search has returned and an edge from a reached vertex (the source
\* itself for a self-loop) leads back to the source.
C3_Witness ==
    /\ Returned
    /\ inputKind = "wellformed"
    /\ \E e \in edgeList :
        /\ e[2] = SourceVertex
        /\ distance[e[1]] # UNKNOWN

\* C4: BreadthFirstSearch terminates: once in its loop, the queue eventually
\* is empty and the call returns.
C4_Terminates == (pc = "while") ~> (pc = "print")

\* The search has returned on a graph where a reached vertex lies on a
\* self-loop or on a cycle of two edges.
C4_Witness ==
    /\ pc = "print"
    /\ inputKind = "wellformed"
    /\ \E e \in edgeList :
        /\ distance[e[1]] # UNKNOWN
        /\ <<e[2], e[1]>> \in edgeList

NoDuplicates(q) == \A a, b \in 1 .. Len(q) : q[a] = q[b] => a = b

\* C5: in one BreadthFirstSearch call every vertex is pushed at most once,
\* the queue never holds a vertex twice, and (for a graph of at least one
\* vertex) it never holds more than N vertices.
C5_EnqueuedAtMostOnce ==
    /\ \A v \in DOMAIN pushes : pushes[v] <= 1
    /\ NoDuplicates(vertex_queue)
    /\ NumberOfVertices >= 1 => Len(vertex_queue) <= NumberOfVertices

\* A vertex other than the source, pushed once, is the destination of edges
\* from two or more reached vertices.
C5_Witness ==
    /\ Returned
    /\ inputKind = "wellformed"
    /\ \E v \in 1 .. NumberOfVertices :
        /\ v # SourceVertex
        /\ pushes[v] = 1
        /\ Cardinality({e \in edgeList :
                            e[2] = v /\ distance[e[1]] # UNKNOWN}) >= 2

\* C6: once a vertex's distance is different from -1, no later step changes it.
C6_DistanceWrittenOnce ==
    [][\A v \in DOMAIN distance :
            distance[v] # UNKNOWN => distance'[v] = distance[v]]_vars

\* The inner loop has just passed an edge to a vertex discovered earlier
\* (its distance is not the one this step would have written).
C6_Witness ==
    /\ pc = "for"
    /\ i > 0
    /\ distance[EdgeDestination(current_vertex, i - 1)]
            # distance[current_vertex] + 1

\* C7: a second BreadthFirstSearch(s) on the same Graph, with the distances
\* left as the first call wrote them, leaves every distance as it was.
C7_SecondCallSameDistances ==
    (run = 2 /\ Returned) => distance = firstDistance

\* The second call has returned on a graph where the first call reached a
\* vertex other than the source and left another one unreached.
C7_Witness ==
    /\ run = 2
    /\ pc = "print"
    /\ \E v \in 1 .. NumberOfVertices : firstDistance[v] >= 1
    /\ \E v \in 1 .. NumberOfVertices : firstDistance[v] = UNKNOWN

\* The distances of vertices 1..k in decimal, single spaces between them.
RECURSIVE JoinDistances(_)
JoinDistances(k) ==
    IF k = 1
    THEN FormatInt(distance[1])
    ELSE JoinDistances(k - 1) \o <<" ">> \o FormatInt(distance[k])

\* C8: what is written to bfs.out is one line: the N integers separated by
\* single spaces, then a newline character.
C8_NewlineTerminatedLine ==
    (Written /\ NumberOfVertices >= 1)
        => outFile = JoinDistances(NumberOfVertices) \o <<"\n">>

\* Reading the output back: the maximal runs of non-blank characters.
IsBlank(c) == c \in {" ", "\n"}

RECURSIVE Words(_, _)
Words(chars, word) ==
    IF chars = <<>>
    THEN IF word = <<>> THEN <<>> ELSE <<word>>
    ELSE IF IsBlank(Head(chars))
    THEN (IF word = <<>> THEN <<>> ELSE <<word>>) \o Words(Tail(chars), <<>>)
    ELSE Words(Tail(chars), Append(word, Head(chars)))

DigitValue(c) == CHOOSE d \in 0 .. 9 : DigitChars[d + 1] = c

RECURSIVE ParseNat(_)
ParseNat(word) ==
    IF word = <<>>
    THEN 0
    ELSE 10 * ParseNat(SubSeq(word, 1, Len(word) - 1))
            + DigitValue(word[Len(word)])

ParseInt(word) ==
    IF Head(word) = "-" THEN 0 - ParseNat(Tail(word)) ELSE ParseNat(word)

ParseInts(chars) ==
    LET words == Words(chars, <<>>)
    IN  [k \in 1 .. Len(words) |-> ParseInt(words[k])]

\* C9: the output holds exactly N values, the k-th being the distance of
\* vertex k (-1 when unreached); slot 0 is not printed.
C9_PrintsVertices1ToN ==
    Written =>
        ParseInts(outFile) = [k \in 1 .. NumberOfVertices |-> distance[k]]

\* A well-formed run wrote its output for a graph with a reached and an
\* unreached vertex besides the source.
C9_Witness ==
    /\ Written
    /\ inputKind = "wellformed"
    /\ NumberOfVertices >= 3
    /\ Len(Words(outFile, <<>>)) = NumberOfVertices
    /\ \E v \in 1 .. NumberOfVertices : distance[v] = UNKNOWN
    /\ \E v \in 1 .. NumberOfVertices : distance[v] >= 1

\* C10: when an extraction from bfs.in has failed (a non-numeric token, or
\* the input ended early), the run has aborted: it does not go on to build
\* the graph, run the search, write the distances or return 0.
C10_MalformedInputAborts ==
    io_IN.fail => pc = "aborted"

----------------------------------------------------------------------------
\* BreadthFirstSearch as a function of the adjacency lists it is given.

\* The inner loop from index k on: the distances and the queue it leaves.
RECURSIVE ScanEdges(_, _, _, _, _)
ScanEdges(e, d, q, current, k) ==
    IF k >= EdgesSize(e[current])
    THEN [distance |-> d, queue |-> q]
    ELSE LET neighbour_vertex == e[current][k + 1] IN
         IF Visited(d[neighbour_vertex])
         THEN ScanEdges(e, d, q, current, k + 1)
         ELSE ScanEdges(e,
                        [d EXCEPT ![neighbour_vertex] = NextDistance(d[current])],
                        QueuePush(q, neighbour_vertex), current, k + 1)

\* The while loop: the distances left when the queue is empty.
RECURSIVE DrainQueue(_, _, _)
DrainQueue(e, d, q) ==
    IF q = <<>>
    THEN d
    ELSE LET scanned == ScanEdges(e, d, QueuePop(q), QueueFront(q), 0)
         IN  DrainQueue(e, scanned.distance, scanned.queue)

BreadthFirstSearch(e, d, source) ==
    DrainQueue(e, [d EXCEPT ![source] = SourceDistance], QueuePush(<<>>, source))

\* The elements of a set of numbers in increasing order.
RECURSIVE Ascending(_)
Ascending(S) ==
    IF S = {}
    THEN <<>>
    ELSE <<Minimum(S)>> \o Ascending(S \ {Minimum(S)})

\* The Graph that main builds when the pairs of a set are given once each, in
\* increasing order.
OrderedGraph(n, pairs) ==
    [v \in Slots(n) |-> Ascending({p[2] : p \in {x \in pairs : x[1] = v}})]

\* C13: the distances BreadthFirstSearch leaves depend on the set of pairs
\* read and on the source only: whatever the order of the pairs in bfs.in and
\* however often a pair is repeated, they are the distances the same code
\* leaves on the graph built from the set given once, in increasing order.
C13_DistancesDependOnEdgeSetOnly ==
    (pc = "print" /\ run = 1) =>
        distance = BreadthFirstSearch(OrderedGraph(NumberOfVertices, edgeList),
                                      GraphDistance(NumberOfVertices),
                                      SourceVertex)

\* The source's pairs came out of order and one of them twice.
C13_Witness ==
    /\ pc = "print"
    /\ run = 1
    /\ Len(edges[SourceVertex]) = 3
    /\ edges[SourceVertex][1] > edges[SourceVertex][2]
    /\ edges[SourceVertex][3] = edges[SourceVertex][1]
    /\ distance[edges[SourceVertex][2]] = 1

----------------------------------------------------------------------------
\* The singleton's streams.

\* IN.open was called, the stream is not open, and no close was made.
InputOpenFailed ==
    /\ ioLog.opensIN > 0
    /\ ioLog.closesIN = 0
    /\ ~io_IN.open

\* C11: when bfs.in cannot be opened the run is aborted inside the IO
\* constructor's GetInputStream: GetOutputStream is never called, so bfs.out
\* is neither opened nor truncated, nothing is read and no traversal starts.
C11_InputOpenFailureAborts ==
    InputOpenFailed =>
        /\ pc = "aborted"
        /\ ioLog.opensOUT = 0
        /\ ~io_OUT.open
        /\ outFile = StaleOutput
        /\ ioLog.reads = 0
        /\ run = 0

C11_Witness ==
    /\ InputOpenFailed
    /\ pc = "aborted"
    /\ io_IN.fail

\* main is reading, computing or writing.
Working == pc \in {"header", "construct", "edges", "while", "for", "print", "return"}

\* C12: in a run that goes on past GetInstance, each stream is opened once,
\* by the first GetInstance call (a later call opens nothing), before anything
\* is read or computed; each is closed once, after the last write; and no
\* extraction or insertion is made on a stream that is closed or whose owner
\* was marked destroyed.
C12_StreamsOpenedAndClosedOnce ==
    /\ ~ioLog.misuse
    /\ (ioLog.reads > 0 \/ ioLog.writes > 0 \/ run > 0 \/ Working) =>
            ioLog.opensIN = 1 /\ ioLog.opensOUT = 1
    /\ Working =>
            /\ io_IN.open /\ io_OUT.open /\ ~destroyed
            /\ ioLog.closesIN = 0 /\ ioLog.closesOUT = 0
    /\ pc = "done" =>
            /\ ioLog.closesIN = 1 /\ ioLog.closesOUT = 1
            /\ ioLog.writes = 1
            /\ ~io_IN.open /\ ~io_OUT.open /\ destroyed

C12_Witness ==
    /\ pc = "done"
    /\ ioLog.calls = 2
    /\ ioLog.reads > 3
    /\ ioLog.writes = 1

----------------------------------------------------------------------------
\* src/Algorithms/binary_search/cautbin.cpp.

\* Bounds of the model: the array's length and values, and the query count.
MaxSize == 4
MaxValue == 3
MaxQueries == 2

\* uint32_t values as <<high half, low half>>, 16 bits each.
Add32(x, y) ==
    LET low == x[2] + y[2]
    IN  <<(x[1] + y[1] + low \div 65536) % 65536, low % 65536>>

\* (uint32_t)(value * word), by doubling.
RECURSIVE Mul32(_, _)
Mul32(value, word) ==
    IF value = 0
    THEN <<0, 0>>
    ELSE LET half == Mul32(value \div 2, word)
             twice == Add32(half, half)
         IN  IF value % 2 = 1 THEN Add32(twice, word) ELSE twice

\* a | b.
RECURSIVE BitOr(_, _)
BitOr(a, b) ==
    IF a = 0 THEN b
    ELSE IF b = 0 THEN a
    ELSE (IF a % 2 = 1 \/ b % 2 = 1 THEN 1 ELSE 0) + 2 * BitOr(a \div 2, b \div 2)

\* 0x07C4ACDD.
DeBruijn == <<1988, 44253>>

tab32 == <<0, 9, 1, 10, 13, 21, 2, 29, 11, 14, 16, 18, 22, 25, 3, 30,
           8, 12, 20, 28, 15, 17, 24, 7, 19, 27, 23, 6, 26, 5, 4, 31>>

log2_32(value) ==
    LET v1 == BitOr(value, value \div 2)
        v2 == BitOr(v1, v1 \div 4)
        v4 == BitOr(v2, v2 \div 16)
        v8 == BitOr(v4, v4 \div 256)
        v16 == BitOr(v8, v8 \div 65536)
    IN  tab32[Mul32(v16, DeBruijn)[1] \div 2048 + 1]

\* A read of numbers[position] with position past the vector's end is
\* undefined; the outcome kept is the run being killed.
Wild == -1

\* binary_search's loop with `index` where it stands.
RECURSIVE SearchUp(_, _, _, _, _)
SearchUp(numbers, _value, step, index, upper_bound) ==
    IF step = 0
    THEN index
    ELSE IF index + step <= upper_bound /\ numbers[index + step] <= _value
    THEN SearchUp(numbers, _value, step \div 2, index + step, upper_bound)
    ELSE SearchUp(numbers, _value, step \div 2, index, upper_bound)

binary_search(numbers, _value, step, lower_bound, upper_bound) ==
    SearchUp(numbers, _value, step, lower_bound, upper_bound)

\* reverse_binary_search's loop.  index - step is unsigned: below zero it wraps
\* to a position past the vector's end, which passes the >= test.
RECURSIVE SearchDown(_, _, _, _, _)
SearchDown(numbers, _value, step, index, lower_bound) ==
    IF step = 0
    THEN index
    ELSE IF index < step
    THEN Wild
    ELSE IF index - step >= lower_bound /\ numbers[index - step] >= _value
    THEN SearchDown(numbers, _value, step \div 2, index - step, lower_bound)
    ELSE SearchDown(numbers, _value, step \div 2, index, lower_bound)

reverse_binary_search(numbers, _value, step, lower_bound, upper_bound) ==
    SearchDown(numbers, _value, step, upper_bound, lower_bound)

\* The non-decreasing sequences of n values.
NonDecreasing(n) ==
    {a \in [1 .. n -> 1 .. MaxValue] : \A k \in 1 .. n - 1 : a[k] <= a[k + 1]}

InitCautbin ==
    /\ BfsNotRunning
    /\ FurtherProgramsNotRunning
    /\ cautbin = [pc |-> "start", array_size |-> 0, numbers |-> <<>>,
                  log2_array_size |-> 0, queries_count |-> 0,
                  queries |-> <<>>, OUT |-> <<>>]
    /\ ciur = NotRunning
    /\ lgput = NotRunning
    /\ euclid3 = NotRunning

CautbinOnly == UNCHANGED <<pc, inputKind, ioVars, headerVars, edge_i, graphVars,
                           bfsVars, ciur, lgput, euclid3,
                           furtherPrograms>>

\* main up to the query loop: array_size, the vector of array_size + 1 zeros,
\* log2_32(array_size), numbers[1..array_size], queries_count.
ReadArray ==
    /\ cautbin.pc = "start"
    /\ \E n \in 1 .. MaxSize, count \in 1 .. MaxQueries :
       \E a \in NonDecreasing(n) :
        cautbin' = [cautbin EXCEPT
                        !.pc = "queries",
                        !.array_size = n,
                        !.numbers = [k \in 0 .. n |-> IF k = 0 THEN 0 ELSE a[k]],
                        !.log2_array_size = log2_32(n),
                        !.queries_count = count]
    /\ CautbinOnly

\* One turn of the query loop that reads query_type and query_value and
\* writes `line`.
Answer(query_type, query_value, line) ==
    cautbin' = [cautbin EXCEPT
                    !.queries_count = @ - 1,
                    !.queries = Append(@, <<query_type, query_value>>),
                    !.OUT = @ \o line \o <<"\n">>]

QueryValues == 0 .. MaxValue + 1

\* case 0.
Query0 ==
    /\ cautbin.pc = "queries"
    /\ cautbin.queries_count > 0
    /\ \E query_value \in QueryValues :
        LET position == binary_search(cautbin.numbers, query_value,
                                      cautbin.log2_array_size, 1,
                                      cautbin.array_size)
        IN  IF cautbin.numbers[position] # query_value
            THEN Answer(0, query_value, <<"-", "1">>)
            ELSE Answer(0, query_value, FormatNat(position))
    /\ CautbinOnly

\* case 1.
Query1 ==
    /\ cautbin.pc = "queries"
    /\ cautbin.queries_count > 0
    /\ \E query_value \in QueryValues :
        LET position == binary_search(cautbin.numbers, query_value,
                                      cautbin.log2_array_size, 1,
                                      cautbin.array_size)
        IN  Answer(1, query_value, FormatNat(position))
    /\ CautbinOnly

\* case 2.
Query2 ==
    /\ cautbin.pc = "queries"
    /\ cautbin.queries_count > 0
    /\ \E query_value \in QueryValues :
        LET position == reverse_binary_search(cautbin.numbers, query_value,
                                              cautbin.log2_array_size, 1,
                                              cautbin.array_size)
        IN  IF position = Wild
            THEN cautbin' = [cautbin EXCEPT !.pc = "crashed"]
            ELSE Answer(2, query_value, FormatNat(position))
    /\ CautbinOnly

ErrorLine ==
    <<"E", "R", "R", "O", "R", ":", " ", "I", "n", "v", "a", "l", "i",
      "d", " ", "q", "u", "e", "r", "y", " ", "t", "y", "p", "e", ".",
      "\n">>

\* default: the error line, then assert(false).
InvalidQuery ==
    /\ cautbin.pc = "queries"
    /\ cautbin.queries_count > 0
    /\ cautbin' = [cautbin EXCEPT !.pc = "aborted",
                                  !.OUT = @ \o ErrorLine]
    /\ CautbinOnly

\* queries_count-- reaches zero: return 0.
ReturnFromCautbin ==
    /\ cautbin.pc = "queries"
    /\ cautbin.queries_count = 0
    /\ cautbin' = [cautbin EXCEPT !.pc = "done"]
    /\ CautbinOnly

NextCautbin ==
    \/ ReadArray
    \/ Query0
    \/ Query1
    \/ Query2
    \/ InvalidQuery
    \/ ReturnFromCautbin

SpecCautbin == InitCautbin /\ [][NextCautbin]_vars

Maximum(S) == CHOOSE x \in S : \A y \in S : x >= y

\* The k-th query answered, and the number on the k-th line written.
QueryType(k) == cautbin.queries[k][1]
QueryValue(k) == cautbin.queries[k][2]
Answered == IF cautbin.pc \in {"queries", "done"} THEN DOMAIN cautbin.queries ELSE {}
Positions == 1 .. cautbin.array_size

\* C14: a query of type 1 with numbers[1] <= v is answered with the largest
\* position p of 1..n such that numbers[p] <= v.
C14_LastNotGreater ==
    \A k \in Answered :
        (QueryType(k) = 1 /\ cautbin.numbers[1] <= QueryValue(k)) =>
            ParseInts(cautbin.OUT)[k] =
                Maximum({p \in Positions : cautbin.numbers[p] <= QueryValue(k)})

\* C15: a query of type 2 with numbers[n] >= v is answered with the smallest
\* position p of 1..n such that numbers[p] >= v.
C15_FirstNotSmaller ==
    \A k \in Answered :
        (QueryType(k) = 2 /\ cautbin.numbers[cautbin.array_size] >= QueryValue(k)) =>
            ParseInts(cautbin.OUT)[k] =
                Minimum({p \in Positions : cautbin.numbers[p] >= QueryValue(k)})

\* C16: a query of type 0 is answered with the position of the last
\* occurrence of v when v occurs in numbers[1..n], and with -1 when it does
\* not.
C16_LastOccurrenceOrMinusOne ==
    \A k \in Answered :
        QueryType(k) = 0 =>
            LET occurrences == {p \in Positions : cautbin.numbers[p] = QueryValue(k)}
            IN  ParseInts(cautbin.OUT)[k] =
                    IF occurrences = {} THEN -1 ELSE Maximum(occurrences)

----------------------------------------------------------------------------
\* src/Algorithms/eratosthenes_sieve/ciur.cpp.

\* Bound of the model: the largest N read.
MaxSieveN == 30

\* std::ceil(std::sqrt(N)).
CeilSqrt(N) == CHOOSE r \in 0 .. N : r * r >= N /\ (r = 0 \/ (r - 1) * (r - 1) < N)

InitCiur ==
    /\ BfsNotRunning
    /\ FurtherProgramsNotRunning
    /\ cautbin = NotRunning
    /\ ciur = [pc |-> "start", N |-> 0, N_half |-> 0, N_sqrt |-> 0, i |-> 0,
               j |-> 0, sieve |-> {}, OUT |-> <<>>]
    /\ lgput = NotRunning
    /\ euclid3 = NotRunning

CiurOnly == UNCHANGED <<pc, inputKind, ioVars, headerVars, edge_i, graphVars,
                        bfsVars, cautbin, lgput, euclid3,
                           furtherPrograms>>

\* io.IN >> N, and get_prime_numbers_count(N) up to the outer loop's i = 1.
\* sieve is the set of the indices whose bit is set.
ReadN ==
    /\ ciur.pc = "start"
    /\ \E N \in 2 .. MaxSieveN :
        ciur' = [ciur EXCEPT !.pc = "outer", !.N = N, !.N_half = N \div 2,
                             !.N_sqrt = CeilSqrt(N), !.i = 1]
    /\ CiurOnly

\* if (!sieve[i]) is false: the next i.
SkipMarked ==
    /\ ciur.pc = "outer"
    /\ ciur.i <= ciur.N_sqrt
    /\ ciur.i \in ciur.sieve
    /\ ciur' = [ciur EXCEPT !.i = @ + 1]
    /\ CiurOnly

\* if (!sieve[i]) is true: j = (i + 1) * i_double.
EnterInner ==
    /\ ciur.pc = "outer"
    /\ ciur.i <= ciur.N_sqrt
    /\ ciur.i \notin ciur.sieve
    /\ ciur' = [ciur EXCEPT !.pc = "inner", !.j = (ciur.i + 1) * (2 * ciur.i)]
    /\ CiurOnly

\* sieve[j] = true; j += i_double + 1.
Mark ==
    /\ ciur.pc = "inner"
    /\ ciur.j < ciur.N_half
    /\ ciur' = [ciur EXCEPT !.sieve = @ \cup {ciur.j}, !.j = @ + 2 * ciur.i + 1]
    /\ CiurOnly

\* j < N_half is false: the next i.
LeaveInner ==
    /\ ciur.pc = "inner"
    /\ ciur.j >= ciur.N_half
    /\ ciur' = [ciur EXCEPT !.pc = "outer", !.i = @ + 1]
    /\ CiurOnly

\* return N_half - sieve.count(), written by main.
WriteCount ==
    /\ ciur.pc = "outer"
    /\ ciur.i > ciur.N_sqrt
    /\ ciur' = [ciur EXCEPT !.pc = "done",
                            !.OUT = FormatNat(ciur.N_half - Cardinality(ciur.sieve))
                                    \o <<"\n">>]
    /\ CiurOnly

NextCiur ==
    \/ ReadN
    \/ SkipMarked
    \/ EnterInner
    \/ Mark
    \/ LeaveInner
    \/ WriteCount

SpecCiur == InitCiur /\ [][NextCiur]_vars

IsPrime(p) == p >= 2 /\ \A d \in 2 .. p - 1 : p % d # 0

\* C17: for every N read, even or odd, the number written is the number of
\* primes p with p <= N.
C17_CountsPrimesUpToN ==
    ciur.pc = "done" =>
        ParseInts(ciur.OUT) = <<Cardinality({p \in 2 .. ciur.N : IsPrime(p)})>>

----------------------------------------------------------------------------
\* src/Algorithms/fast_exponential/lgput.cpp.

\* Bounds of the model: the small bases and exponents read (the large ones
\* are listed in LargeWords).
MaxBase == 4
MaxExponent == 6

MOD == 1999999973

\* unsigned long long values as their 8 bytes, lowest first.
RECURSIVE Bytes(_, _)
Bytes(n, count) ==
    IF count = 0 THEN <<>> ELSE <<n % 256>> \o Bytes(n \div 256, count - 1)

Word64(n) == Bytes(n, 8)

\* 65536, 2^31, 2^32 - 1 and 2^32.
LargeWords ==
    {<<0, 0, 1, 0, 0, 0, 0, 0>>, <<0, 0, 0, 128, 0, 0, 0, 0>>,
     <<255, 255, 255, 255, 0, 0, 0, 0>>, <<0, 0, 0, 0, 1, 0, 0, 0>>}

\* x[1]*y[k] + x[2]*y[k-1] + ... + x[k]*y[1], from term m on.
RECURSIVE ColumnSum(_, _, _, _)
ColumnSum(x, y, k, m) ==
    IF m > k THEN 0 ELSE x[m] * y[k + 1 - m] + ColumnSum(x, y, k, m + 1)

\* The bytes k..8 of x * y, `carry` coming from the bytes below: the product
\* of two unsigned long long is its low 64 bits.
RECURSIVE ProductBytes(_, _, _, _)
ProductBytes(x, y, k, carry) ==
    IF k > 8
    THEN <<>>
    ELSE LET total == carry + ColumnSum(x, y, k, 1)
         IN  <<total % 256>> \o ProductBytes(x, y, k + 1, total \div 256)

Mul64(x, y) == ProductBytes(x, y, 1, 0)

\* (a + b) mod m for a, b < m.
AddMod(a, b, m) == IF a >= m - b THEN a - (m - b) ELSE a + b

\* (a * 2^count) mod m for a < m.
RECURSIVE ShiftMod(_, _, _)
ShiftMod(a, count, m) ==
    IF a = 0 \/ count = 0
    THEN a
    ELSE ShiftMod(AddMod(a, a, m), count - 1, m)

\* The remainder modulo m of the number that the bytes k..8 of x make.
RECURSIVE Remainder(_, _, _)
Remainder(x, k, m) ==
    IF k > 8
    THEN 0
    ELSE AddMod(ShiftMod(Remainder(x, k + 1, m), 8, m), x[k] % m, m)

\* x % m.
Mod64(x, m) == Remainder(x, 1, m)

\* The bytes k..8 of x >> 1.
RECURSIVE ShiftedBytes(_, _)
ShiftedBytes(x, k) ==
    IF k > 8
    THEN <<>>
    ELSE <<x[k] \div 2 + (IF k < 8 THEN (x[k + 1] % 2) * 128 ELSE 0)>>
         \o ShiftedBytes(x, k + 1)

\* exponent >>= 1.
ShiftRight(x) == ShiftedBytes(x, 1)

IsOdd(x) == x[1] % 2 = 1

\* exponent-- of an odd exponent.
Decrement(x) == [x EXCEPT ![1] = @ - 1]

InitLgput ==
    /\ BfsNotRunning
    /\ FurtherProgramsNotRunning
    /\ cautbin = NotRunning
    /\ ciur = NotRunning
    /\ lgput = [pc |-> "start", N |-> Word64(0), P |-> Word64(0),
                base |-> Word64(0), exponent |-> Word64(0), result |-> 0,
                OUT |-> <<>>]
    /\ euclid3 = NotRunning

LgputOnly == UNCHANGED <<pc, inputKind, ioVars, headerVars, edge_i, graphVars,
                         bfsVars, cautbin, ciur, euclid3,
                           furtherPrograms>>

\* io.IN >> N >> P, and FastExponential(N, P, MOD) up to the loop: result = 1.
ReadNP ==
    /\ lgput.pc = "start"
    /\ \E N \in {Word64(n) : n \in 2 .. MaxBase} \cup LargeWords,
          P \in {Word64(n) : n \in 2 .. MaxExponent} \cup LargeWords :
        lgput' = [lgput EXCEPT !.pc = "while", !.N = N, !.P = P, !.base = N,
                               !.exponent = P, !.result = 1]
    /\ LgputOnly

\* A turn of the loop with an odd exponent.
OddTurn ==
    /\ lgput.pc = "while"
    /\ lgput.exponent # Word64(0)
    /\ IsOdd(lgput.exponent)
    /\ lgput' = [lgput EXCEPT
                    !.result = Mod64(Mul64(Word64(lgput.result), lgput.base), MOD),
                    !.base = Word64(Mod64(Mul64(lgput.base, lgput.base), MOD)),
                    !.exponent = ShiftRight(Decrement(lgput.exponent))]
    /\ LgputOnly

\* A turn of the loop with an even exponent.
EvenTurn ==
    /\ lgput.pc = "while"
    /\ lgput.exponent # Word64(0)
    /\ ~IsOdd(lgput.exponent)
    /\ lgput' = [lgput EXCEPT
                    !.base = Word64(Mod64(Mul64(lgput.base, lgput.base), MOD)),
                    !.exponent = ShiftRight(lgput.exponent)]
    /\ LgputOnly

\* exponent > 0 is false: return result, written by main.
WriteResult ==
    /\ lgput.pc = "while"
    /\ lgput.exponent = Word64(0)
    /\ lgput' = [lgput EXCEPT !.pc = "done",
                              !.OUT = FormatNat(lgput.result) \o <<"\n">>]
    /\ LgputOnly

NextLgput ==
    \/ ReadNP
    \/ OddTurn
    \/ EvenTurn
    \/ WriteResult

SpecLgput == InitLgput /\ [][NextLgput]_vars

\* N^P mod m as arithmetic has it, no value ever leaving 0 .. m - 1: sums
\* only, the multiplier and the exponent taken a byte at a time.

\* (a * r) mod m for a < m and a byte r: a * (2q + t) = 2(a * q) + a * t.
RECURSIVE TimesByte(_, _, _)
TimesByte(a, r, m) ==
    IF a = 0 \/ r = 0
    THEN 0
    ELSE LET half == TimesByte(a, r \div 2, m)
             twice == AddMod(half, half, m)
         IN  IF r % 2 = 1 THEN AddMod(twice, a, m) ELSE twice

\* (a * b) mod m for a, b < m: a * (256q + r) = 256(a * q) + a * r.
RECURSIVE MulMod(_, _, _)
MulMod(a, b, m) ==
    IF a = 0 \/ b = 0
    THEN 0
    ELSE AddMod(ShiftMod(MulMod(a, b \div 256, m), 8, m),
                TimesByte(a, b % 256, m), m)

\* n^r mod m for n < m and r <= 256: n^(2q + t) = (n^q)^2 * n^t.
RECURSIVE PowerOfByte(_, _, _)
PowerOfByte(n, r, m) ==
    IF r = 0 THEN 1 % m
    ELSE IF n = 0 THEN 0
    ELSE LET root == PowerOfByte(n, r \div 2, m)
             square == MulMod(root, root, m)
         IN  IF r % 2 = 1 THEN MulMod(square, n, m) ELSE square

\* n to the number that the bytes k..8 of P make, mod m:
\* n^(256q + r) = (n^q)^256 * n^r.
RECURSIVE PowerOfBytes(_, _, _, _)
PowerOfBytes(n, P, k, m) ==
    IF k > 8
    THEN 1 % m
    ELSE MulMod(PowerOfByte(PowerOfBytes(n, P, k + 1, m), 256, m),
                PowerOfByte(n, P[k], m), m)

PowerMod(n, P, m) ==
    IF P = Word64(0) THEN 1 % m
    ELSE IF n = 0 THEN 0
    ELSE PowerOfBytes(n, P, 1, m)

\* C18: for N and P from 2 to 2^32, both ends included, the number written
\* is N^P mod 1999999973: no product of the loop loses bits that matter.
C18_PowerModulo ==
    lgput.pc = "done" =>
        ParseInts(lgput.OUT) = <<PowerMod(Mod64(lgput.N, MOD), lgput.P, MOD)>>

----------------------------------------------------------------------------
\* src/Algorithms/euclid_extended/euclid3.cpp.

\* Bounds of the model: |a|, |b| <= MaxOperand and 0 < |c| <= MaxTarget.
MaxOperand == 3
MaxTarget == 4

Abs(n) == IF n < 0 THEN 0 - n ELSE n

\* a / b on int: the quotient truncated towards zero.
Quotient(a, b) ==
    LET q == Abs(a) \div Abs(b)
    IN  IF (a < 0) # (b < 0) THEN 0 - q ELSE q

\* if (swapped) std::swap(a_coef[prev], b_coef[prev]): the pair returned as
\* <<Bezout_x, Bezout_y>>.
BezoutPairMutant(swapped, a_prev, b_prev) == <<a_prev, b_prev>>

BezoutPair(swapped, a_prev, b_prev) ==
    IF swapped THEN <<b_prev, a_prev>> ELSE <<a_prev, b_prev>>

InitEuclid3 ==
    /\ BfsNotRunning
    /\ FurtherProgramsNotRunning
    /\ cautbin = NotRunning
    /\ ciur = NotRunning
    /\ lgput = NotRunning
    /\ euclid3 = [pc |-> "start", T_counter |-> 0, a |-> 0, b |-> 0, c |-> 0,
                  swapped |-> FALSE, ea |-> 0, eb |-> 0,
                  a_coef |-> <<1, 0>>, b_coef |-> <<0, 1>>, turns |-> 0,
                  solution |-> [gcd |-> 0, Bezout_x |-> 0, Bezout_y |-> 0],
                  OUT |-> <<>>]

Euclid3Only == UNCHANGED <<pc, inputKind, ioVars, headerVars, edge_i, graphVars,
                           bfsVars, cautbin, ciur, lgput,
                           furtherPrograms>>

\* io.IN >> T_counter (a file of one test case), io.IN >> a >> b >> c, and
\* euclid_extended(a, b) up to its loop: ea and eb are the function's own a
\* and b, swapped when |b| > |a|; a_coef and b_coef hold <<previous, current>>.
ReadCase ==
    /\ euclid3.pc = "start"
    /\ \E a \in -MaxOperand .. MaxOperand, b \in -MaxOperand .. MaxOperand,
          c \in (-MaxTarget .. MaxTarget) \ {0} :
        LET swapped == Abs(b) > Abs(a) IN
        euclid3' = [euclid3 EXCEPT
                        !.pc = "while", !.T_counter = 0,
                        !.a = a, !.b = b, !.c = c, !.swapped = swapped,
                        !.ea = IF swapped THEN b ELSE a,
                        !.eb = IF swapped THEN a ELSE b]
    /\ Euclid3Only

\* A turn of while (b).
EuclidTurn ==
    /\ euclid3.pc = "while"
    /\ euclid3.eb # 0
    /\ LET quotient == Quotient(euclid3.ea, euclid3.eb)
           remainder == euclid3.ea - quotient * euclid3.eb
       IN  euclid3' = [euclid3 EXCEPT
                        !.ea = euclid3.eb,
                        !.eb = remainder,
                        !.a_coef = <<@[2], @[1] - quotient * @[2]>>,
                        !.b_coef = <<@[2], @[1] - quotient * @[2]>>,
                        !.turns = @ + 1]
    /\ Euclid3Only

\* b is zero: return {a, a_coef[prev], b_coef[prev]}, the two swapped back
\* when the arguments were swapped.
ReturnSolution ==
    /\ euclid3.pc = "while"
    /\ euclid3.eb = 0
    /\ LET pair == BezoutPair(euclid3.swapped, euclid3.a_coef[1], euclid3.b_coef[1])
       IN  euclid3' = [euclid3 EXCEPT
                        !.pc = "divide",
                        !.solution = [gcd |-> euclid3.ea, Bezout_x |-> pair[1],
                                      Bezout_y |-> pair[2]]]
    /\ Euclid3Only

\* c / solution.gcd with solution.gcd = 0: undefined; the run is killed
\* (SIGFPE on the build's targets).
DivideByZero ==
    /\ euclid3.pc = "divide"
    /\ euclid3.solution.gcd = 0
    /\ euclid3' = [euclid3 EXCEPT !.pc = "crashed"]
    /\ Euclid3Only

\* multiplier, unsolvable, and the line written; T_counter-- ends the loop.
WriteAnswer ==
    /\ euclid3.pc = "divide"
    /\ euclid3.solution.gcd # 0
    /\ LET multiplier == Quotient(euclid3.c, euclid3.solution.gcd)
           unsolvable == euclid3.c - multiplier * euclid3.solution.gcd
       IN  euclid3' = [euclid3 EXCEPT
                        !.pc = "done",
                        !.OUT = IF unsolvable # 0
                                THEN <<"0", " ", "0", "\n">>
                                ELSE FormatInt(euclid3.solution.Bezout_x * multiplier)
                                     \o <<" ">>
                                     \o FormatInt(euclid3.solution.Bezout_y * multiplier)
                                     \o <<"\n">>]
    /\ Euclid3Only

NextEuclid3 ==
    \/ ReadCase
    \/ EuclidTurn
    \/ ReturnSolution
    \/ DivideByZero
    \/ WriteAnswer

SpecEuclid3 == InitEuclid3 /\ [][NextEuclid3]_vars

\* The greatest common divisor of two naturals, not both zero.
Divides(d, n) == n % d = 0
GCD(m, n) ==
    Maximum({d \in 1 .. (m + n) : Divides(d, m) /\ Divides(d, n)})

\* euclid_extended has returned.
EuclidReturned == euclid3.pc \in {"divide", "done", "crashed"}

\* C19: for a and b not both zero, euclid_extended(a, b) returns (g, x, y)
\* with a*x + b*y = g and |g| = gcd(|a|, |b|), x being the coefficient of the
\* caller's first argument and y of the second, swapped inside or not; no
\* coefficient on the way is larger in size than the larger of |a| and |b|.
C19_BezoutIdentity ==
    /\ (EuclidReturned /\ (euclid3.a # 0 \/ euclid3.b # 0)) =>
            /\ euclid3.a * euclid3.solution.Bezout_x
                    + euclid3.b * euclid3.solution.Bezout_y = euclid3.solution.gcd
            /\ Abs(euclid3.solution.gcd) = GCD(Abs(euclid3.a), Abs(euclid3.b))
    /\ euclid3.pc = "while" =>
            \A k \in 1 .. 2 :
                /\ Abs(euclid3.a_coef[k]) <= Maximum({Abs(euclid3.a), Abs(euclid3.b), 1})
                /\ Abs(euclid3.b_coef[k]) <= Maximum({Abs(euclid3.a), Abs(euclid3.b), 1})

\* The arguments were swapped, the loop ran more than once, and both
\* coefficients are used.
C19_Witness ==
    /\ EuclidReturned
    /\ euclid3.swapped
    /\ euclid3.a < 0
    /\ euclid3.turns > 1
    /\ euclid3.solution.Bezout_x # 0
    /\ euclid3.solution.Bezout_y # 0

\* Some integers x, y satisfy a*x + b*y = c.
Solvable(a, b, c) ==
    \E x \in -(MaxOperand * MaxTarget) .. MaxOperand * MaxTarget,
       y \in -(MaxOperand * MaxTarget) .. MaxOperand * MaxTarget :
        a * x + b * y = c

\* C20: for every test case of the documented ranges, a = 0 and b = 0
\* included, the line written is "0 0" exactly when a*x + b*y = c has no
\* integer solution and holds a solution x, y otherwise; and no test case
\* makes the program divide by zero.
C20_AnswersEveryCase ==
    /\ euclid3.pc # "crashed"
    /\ euclid3.pc = "done" =>
            LET answer == ParseInts(euclid3.OUT) IN
            /\ Len(answer) = 2
            /\ IF Solvable(euclid3.a, euclid3.b, euclid3.c)
               THEN euclid3.a * answer[1] + euclid3.b * answer[2] = euclid3.c
               ELSE answer = <<0, 0>>

----------------------------------------------------------------------------
\* src/Algorithms/prime_factorisation/divmul.cpp.

\* Bounds of the model: queries per file, and the small values offered for
\* the two numbers of a query.
MaxCases == 1
MaxGcd == 3
MaxLcm == 8

\* get_prime_numbers's default argument N.
PRIME_RANGE == 10100

\* Queries at the far end of the documented ranges: the quotient is
\* 49999991 (the largest prime below 50 000 000), 7069 * 7069 (the square of
\* the largest prime below sqrt(50 000 000)), 10^4, and
\* 2 * 3 * 5 * 7 * 11 * 13 * 17 * 19; and a first number above the second.
LargeQueries ==
    {<<2, 99999982>>, <<2, 99941522>>, <<10000, 100000000>>,
     <<2, 19399380>>, <<10000, 2>>}

Queries == ((1 .. MaxGcd) \X (1 .. MaxLcm)) \cup LargeQueries

\* unsigned int factors_counter = 1 - (N & 1).
InitialCounterMutant(N) == 0

InitialCounter(N) == 1 - (N % 2)

\* while ((N & 1) == 0) N >>= 1, for N > 0.
RECURSIVE Halved(_)
Halved(N) == IF N % 2 = 0 THEN Halved(N \div 2) ELSE N

\* do N /= prime; while (N % prime == 0).
RECURSIVE Divided(_, _)
Divided(N, prime) ==
    LET quotient == N \div prime
    IN  IF quotient % prime = 0 THEN Divided(quotient, prime) ELSE quotient

InitDivmul ==
    /\ BfsNotRunning
    /\ cautbin = NotRunning
    /\ ciur = NotRunning
    /\ lgput = NotRunning
    /\ euclid3 = NotRunning
    /\ divmul = [pc |-> "start", N_half |-> 0, N_sqrt |-> 0, sieve |-> {},
                 i |-> 0, j |-> 0, prime_count |-> 0, primes |-> <<>>,
                 T_counter |-> 0, query |-> <<>>, differential |-> 0, N |-> 0,
                 factors_counter |-> 0, index |-> 0, OUT |-> <<>>]
    /\ text3 = NotRunning
    /\ text4 = NotRunning
    /\ adunare = NotRunning

DivmulOnly == UNCHANGED <<pc, inputKind, ioVars, headerVars, edge_i, graphVars,
                          bfsVars, cautbin, ciur, lgput, euclid3, text3, text4,
                          adunare>>

\* main() up to get_prime_numbers()'s outer loop at i = 1.  sieve is the set
\* of the indices whose bit is set.
CallGetPrimeNumbers ==
    /\ divmul.pc = "start"
    /\ divmul' = [divmul EXCEPT !.pc = "outer", !.N_half = PRIME_RANGE \div 2,
                                !.N_sqrt = CeilSqrt(PRIME_RANGE), !.i = 1]
    /\ DivmulOnly

\* if (!sieve[i]) is false: the next i.
PrimesSkipMarked ==
    /\ divmul.pc = "outer"
    /\ divmul.i <= divmul.N_sqrt
    /\ divmul.i \in divmul.sieve
    /\ divmul' = [divmul EXCEPT !.i = @ + 1]
    /\ DivmulOnly

\* if (!sieve[i]) is true: j = (i + 1) * i_double.
PrimesEnterInner ==
    /\ divmul.pc = "outer"
    /\ divmul.i <= divmul.N_sqrt
    /\ divmul.i \notin divmul.sieve
    /\ divmul' = [divmul EXCEPT !.pc = "inner",
                                !.j = (divmul.i + 1) * (2 * divmul.i)]
    /\ DivmulOnly

\* sieve[j] = true; j += i_double + 1.
PrimesMark ==
    /\ divmul.pc = "inner"
    /\ divmul.j < divmul.N_half
    /\ divmul' = [divmul EXCEPT !.sieve = @ \cup {divmul.j},
                                !.j = @ + 2 * divmul.i + 1]
    /\ DivmulOnly

\* j < N_half is false: the next i.
PrimesLeaveInner ==
    /\ divmul.pc = "inner"
    /\ divmul.j >= divmul.N_half
    /\ divmul' = [divmul EXCEPT !.pc = "outer", !.i = @ + 1]
    /\ DivmulOnly

\* prime_count = N_half - sieve.count(); primes[0] = 2; the fill loop at
\* i = 1, j = 1.  primes holds the entries filled so far.
PrimesCount ==
    /\ divmul.pc = "outer"
    /\ divmul.i > divmul.N_sqrt
    /\ divmul' = [divmul EXCEPT !.pc = "fill",
                                !.prime_count =
                                    divmul.N_half - Cardinality(divmul.sieve),
                                !.primes = <<2>>, !.i = 1, !.j = 1]
    /\ DivmulOnly

\* if (!sieve[i]) primes[j++] = 2 * i + 1; i++.
PrimesFill ==
    /\ divmul.pc = "fill"
    /\ divmul.j < divmul.prime_count
    /\ divmul' = IF divmul.i \in divmul.sieve
                 THEN [divmul EXCEPT !.i = @ + 1]
                 ELSE [divmul EXCEPT !.primes = Append(@, 2 * divmul.i + 1),
                                     !.j = @ + 1, !.i = @ + 1]
    /\ DivmulOnly

\* return primes (the sieve goes out of scope); io.IN >> T_counter.
ReadCases ==
    /\ divmul.pc = "fill"
    /\ divmul.j >= divmul.prime_count
    /\ \E T \in 1 .. MaxCases :
        divmul' = [divmul EXCEPT !.pc = "loop", !.sieve = {}, !.i = 0, !.j = 0,
                                 !.T_counter = T]
    /\ DivmulOnly

\* One turn of while (T_counter--) that ends at if (lcm == gcd): "1\n".
QueryEqual ==
    /\ divmul.pc = "loop"
    /\ divmul.T_counter > 0
    /\ \E q \in Queries :
        /\ q[1] = q[2]
        /\ divmul' = [divmul EXCEPT !.T_counter = @ - 1, !.query = q,
                                    !.OUT = @ \o <<"1", "\n">>]
    /\ DivmulOnly

\* One turn that ends at one of the two "0\n": after the swap one of the
\* numbers is 0 or 1, or lcm % gcd != 0.
QueryRejected ==
    /\ divmul.pc = "loop"
    /\ divmul.T_counter > 0
    /\ \E q \in Queries :
        LET gcd == IF q[1] > q[2] THEN q[2] ELSE q[1]
            lcm == IF q[1] > q[2] THEN q[1] ELSE q[2]
        IN  /\ lcm # gcd
            /\ \/ lcm = 0 \/ gcd = 0 \/ gcd = 1 \/ lcm = 1
               \/ lcm % gcd # 0
            /\ divmul' = [divmul EXCEPT !.T_counter = @ - 1, !.query = q,
                                        !.OUT = @ \o <<"0", "\n">>]
    /\ DivmulOnly

\* One turn that reaches factorise(differential, primes), up to the first
\* turn of its range-for.  index is the position of prime in primes.
CallFactorise ==
    /\ divmul.pc = "loop"
    /\ divmul.T_counter > 0
    /\ \E q \in Queries :
        LET gcd == IF q[1] > q[2] THEN q[2] ELSE q[1]
            lcm == IF q[1] > q[2] THEN q[1] ELSE q[2]
        IN  /\ lcm # gcd
            /\ ~(lcm = 0 \/ gcd = 0 \/ gcd = 1 \/ lcm = 1)
            /\ lcm % gcd = 0
            /\ divmul' = [divmul EXCEPT !.pc = "factorise",
                                        !.T_counter = @ - 1, !.query = q,
                                        !.differential = lcm \div gcd,
                                        !.N = Halved(lcm \div gcd),
                                        !.factors_counter =
                                            InitialCounter(lcm \div gcd),
                                        !.index = 1]
    /\ DivmulOnly

\* The range-for is over, by its end or by one of the two breaks.
LoopEnds ==
    \/ divmul.index > Len(divmul.primes)
    \/ divmul.N = 1
    \/ divmul.primes[divmul.index] * divmul.primes[divmul.index] > divmul.N

\* if (N % prime == 0) is false: the next prime.
FactoriseSkip ==
    /\ divmul.pc = "factorise"
    /\ ~LoopEnds
    /\ divmul.N % divmul.primes[divmul.index] # 0
    /\ divmul' = [divmul EXCEPT !.index = @ + 1]
    /\ DivmulOnly

\* if (N % prime == 0) is true: factors_counter++ and the do-while.
FactoriseDivide ==
    /\ divmul.pc = "factorise"
    /\ ~LoopEnds
    /\ divmul.N % divmul.primes[divmul.index] = 0
    /\ divmul' = [divmul EXCEPT !.factors_counter = @ + 1,
                                !.N = Divided(@, divmul.primes[divmul.index]),
                                !.index = @ + 1]
    /\ DivmulOnly

\* if (N > 1) factors_counter++; return factors_counter.
FactoriseReturn ==
    /\ divmul.pc = "factorise"
    /\ LoopEnds
    /\ divmul' = [divmul EXCEPT !.pc = "returned",
                                !.factors_counter =
                                    IF divmul.N > 1 THEN @ + 1 ELSE @]
    /\ DivmulOnly

\* 1ULL << n.
RECURSIVE ShiftLeftOne(_)
ShiftLeftOne(n) == IF n = 0 THEN 1 ELSE 2 * ShiftLeftOne(n - 1)

\* io.OUT << solution << "\n".
WriteSolution ==
    /\ divmul.pc = "returned"
    /\ divmul' = [divmul EXCEPT !.pc = "loop",
                                !.OUT = @ \o FormatNat(ShiftLeftOne(
                                            divmul.factors_counter))
                                          \o <<"\n">>]
    /\ DivmulOnly

\* while (T_counter--) is over: return 0.
ReturnFromDivmul ==
    /\ divmul.pc = "loop"
    /\ divmul.T_counter = 0
    /\ divmul' = [divmul EXCEPT !.pc = "done"]
    /\ DivmulOnly

NextDivmul ==
    \/ CallGetPrimeNumbers
    \/ PrimesSkipMarked
    \/ PrimesEnterInner
    \/ PrimesMark
    \/ PrimesLeaveInner
    \/ PrimesCount
    \/ PrimesFill
    \/ ReadCases
    \/ QueryEqual
    \/ QueryRejected
    \/ CallFactorise
    \/ FactoriseSkip
    \/ FactoriseDivide
    \/ FactoriseReturn
    \/ WriteSolution
    \/ ReturnFromDivmul

SpecDivmul == InitDivmul /\ [][NextDivmul]_vars

\* The divisors of N <= 50 000 000: those up to sqrt(N), which is below
\* 7072, and their cofactors.
Divisors(N) ==
    LET small == {d \in 1 .. 7071 : d * d <= N /\ N % d = 0}
    IN  small \cup {N \div d : d \in small}

\* The primes that divide N: the divisors above 1 that no other divisor
\* above 1 divides.
PrimeDivisors(N) ==
    LET all == Divisors(N)
    IN  {p \in all \ {1} : \A d \in all : p % d = 0 => d \in {1, p}}

\* C21: with primes the list get_prime_numbers() returns, which holds every
\* prime up to 10100 in ascending order, factorise(N, primes) returns, for
\* every N from 2 to 50 000 000 it is called with, the number of distinct
\* primes that divide N.
C21_FactoriseCountsDistinctPrimes ==
    /\ (divmul.pc = "loop" /\ divmul.OUT = <<>>) =>
        /\ \A k \in 1 .. Len(divmul.primes) - 1 :
            divmul.primes[k] < divmul.primes[k + 1]
        /\ {divmul.primes[k] : k \in 1 .. Len(divmul.primes)}
            = {p \in 2 .. PRIME_RANGE : IsPrime(p)}
    /\ (divmul.pc = "returned" /\ divmul.differential \in 2 .. 50000000) =>
        divmul.factors_counter = Cardinality(PrimeDivisors(divmul.differential))

\* factorise has returned for the largest prime below 50 000 000, having
\* passed every prime up to its square root.
C21_Witness ==
    /\ divmul.pc = "returned"
    /\ divmul.differential = 49999991
    /\ divmul.primes[divmul.index] = 7079
    /\ divmul.factors_counter = 1

\* The divisors of l <= 100 000 000: those up to sqrt(l) = 10 000 and their
\* cofactors.
DivisorsOfLcm(l) ==
    LET small == {d \in 1 .. 10000 : d * d <= l /\ l % d = 0}
    IN  small \cup {l \div d : d \in small}

\* The number of ordered pairs (a, b) of positive integers with greatest
\* common divisor g and least common multiple l.  Both numbers divide l, and
\* a * b = g * l leaves one candidate b for each multiple a of g.
PairsWith(g, l) ==
    LET all == DivisorsOfLcm(l)
        Partner(a) == l \div (a \div g)
    IN  Cardinality({a \in all :
            /\ a % g = 0
            /\ l % (a \div g) = 0
            /\ Partner(a) % g = 0
            /\ \A d \in all : (a % d = 0 /\ Partner(a) % d = 0) => d <= g
            /\ \A m \in all : (m % a = 0 /\ m % Partner(a) = 0) => m = l})

\* The number on the last line written.
LastAnswer == ParseInts(divmul.OUT)[Len(ParseInts(divmul.OUT))]

\* C22: for every query with first value g in 2..10000 and second value l in
\* 2..100000000, g > l included, the number printed is the number of ordered
\* pairs of positive integers with greatest common divisor g and least
\* common multiple l.
C22_CountsPairs ==
    (/\ divmul.pc \in {"loop", "done"}
     /\ divmul.query # <<>>
     /\ divmul.query[1] \in 2 .. 10000
     /\ divmul.query[2] \in 2 .. 100000000) =>
        LastAnswer = PairsWith(divmul.query[1], divmul.query[2])

----------------------------------------------------------------------------
\* src/Tasks/text3/text3.cpp.

\* Bound of the model: the number of words in text3.in.
MaxWords == 6

\* The words offered: over the letters a and b, one letter or two, and one
\* word that does not end in a letter.
Vocabulary ==
    {<<"a">>, <<"a", "b">>, <<"b", "a">>, <<"b", "b">>, <<"a", "1">>}

\* What may follow the last word of the file.
Trailers == {<<>>, <<"\n">>}

\* The characters of a file: the words, a blank between two, the trailer.
RECURSIVE Joined(_, _)
Joined(list, trailer) ==
    IF list = <<>> THEN trailer
    ELSE IF Len(list) = 1 THEN list[1] \o trailer
    ELSE list[1] \o <<" ">> \o Joined(Tail(list), trailer)

\* while (buffer.eof() == false) { buffer >> line; words.push_back(line); }
\* on a buffer that holds chars: an extraction skips the blanks and takes
\* the characters up to the next blank; it sets eofbit when it meets the end
\* of the buffer, and leaves line empty when it took no character.
RECURSIVE ReadLoop(_)
ReadLoop(chars) ==
    LET first == CHOOSE n \in 0 .. Len(chars) :
                    /\ \A k \in 1 .. n : IsBlank(chars[k])
                    /\ n < Len(chars) => ~IsBlank(chars[n + 1])
        rest == SubSeq(chars, first + 1, Len(chars))
        size == CHOOSE n \in 0 .. Len(rest) :
                    /\ \A k \in 1 .. n : ~IsBlank(rest[k])
                    /\ n < Len(rest) => IsBlank(rest[n + 1])
    IN  IF size = Len(rest)
        THEN <<rest>>
        ELSE <<SubSeq(rest, 1, size)>>
                \o ReadLoop(SubSeq(rest, size + 1, Len(rest)))

\* isalpha(c) for the characters of the model.
IsAlpha(c) == c \in {"a", "b"}

\* The order of the keys of a std::map<char, Node*>.
KeyOrder(c) == CHOOSE n \in 1 .. 2 : <<"a", "b">>[n] = c

InitText3 ==
    /\ BfsNotRunning
    /\ cautbin = NotRunning
    /\ ciur = NotRunning
    /\ lgput = NotRunning
    /\ euclid3 = NotRunning
    /\ divmul = NotRunning
    /\ text3 = [pc |-> "start", file |-> <<>>, words |-> <<>>, k |-> 0,
                nodes |-> <<>>, nodes_map |-> <<>>, best_depth |-> 0,
                best_leaf |-> 0, OUT |-> <<>>]
    /\ text4 = NotRunning
    /\ adunare = NotRunning

Text3Only == UNCHANGED <<pc, inputKind, ioVars, headerVars, edge_i, graphVars,
                         bfsVars, cautbin, ciur, lgput, euclid3, divmul, text4,
                         adunare>>

\* buffer << io.IN.rdbuf() and the reading loop, for a file that holds at
\* least one character.  k is the position of the range-for over words.
ReadWords ==
    /\ text3.pc = "start"
    /\ \E n \in 0 .. MaxWords :
        \E list \in [1 .. n -> Vocabulary], trailer \in Trailers :
            /\ Joined(list, trailer) # <<>>
            /\ text3' = [text3 EXCEPT !.pc = "words",
                                      !.file = Joined(list, trailer),
                                      !.words = ReadLoop(Joined(list, trailer)),
                                      !.k = 1]
    /\ Text3Only

\* The same on an empty file: inserting no character sets the buffer's
\* failbit, no extraction reaches the end, and the loop pushes empty words
\* until the allocation fails (std::bad_alloc, the program is aborted).
ReadNothing ==
    /\ text3.pc = "start"
    /\ text3' = [text3 EXCEPT !.pc = "aborted"]
    /\ Text3Only

\* The word of this turn, its first and its last character.  front() and
\* back() of an empty word are the string's terminator ("NUL" here), which
\* is not a letter.
Word == text3.words[text3.k]
Front == IF Word = <<>> THEN "NUL" ELSE Word[1]
Back == IF Word = <<>> THEN "NUL" ELSE Word[Len(Word)]
InLoop == text3.pc = "words" /\ text3.k <= Len(text3.words)
Valid == IsAlpha(Front) /\ IsAlpha(Back)
HasParent == Front \in DOMAIN text3.nodes_map
Parent == text3.nodes_map[Front]

\* new Node(word, parent): word is the position in words the reference
\* Node::word is bound to; parent is 0 for nullptr.
NewNode(parent) ==
    [word |-> text3.k, parent |-> parent,
     depth |-> IF parent = 0 THEN 1 ELSE text3.nodes[parent].depth + 1,
     children |-> <<>>, deleted |-> FALSE]

\* isalpha fails for the first or the last character: continue.
InvalidWord ==
    /\ InLoop
    /\ ~Valid
    /\ text3' = [text3 EXCEPT !.k = @ + 1]
    /\ Text3Only

\* The node of the first letter already has a child for the last letter:
\* word.clear(); continue.
IgnoreWord ==
    /\ InLoop
    /\ Valid
    /\ HasParent
    /\ Back \in DOMAIN text3.nodes[Parent].children
    /\ text3' = [text3 EXCEPT !.words[text3.k] = <<>>, !.k = @ + 1]
    /\ Text3Only

\* No node to plug the word in: a new root when no node ends in the last
\* letter, and nothing otherwise.
RootWord ==
    /\ InLoop
    /\ Valid
    /\ ~HasParent
    /\ text3' = IF Back \in DOMAIN text3.nodes_map
                THEN [text3 EXCEPT !.k = @ + 1]
                ELSE [text3 EXCEPT
                        !.nodes = Append(@, NewNode(0)),
                        !.nodes_map = (Back :> (Len(text3.nodes) + 1)) @@ @,
                        !.k = @ + 1]
    /\ Text3Only

\* The word becomes a child of the node of its first letter, and the node of
\* its last letter when none was there or the one there is less deep.
KeepChild ==
    /\ InLoop
    /\ Valid
    /\ HasParent
    /\ Back \notin DOMAIN text3.nodes[Parent].children
    /\ IF Back \in DOMAIN text3.nodes_map
       THEN text3.nodes[text3.nodes_map[Back]].depth < NewNode(Parent).depth
       ELSE TRUE
    /\ LET id == Len(text3.nodes) + 1
       IN  text3' = [text3 EXCEPT
                        !.nodes = Append([@ EXCEPT ![Parent].children =
                                                        (Back :> id) @@ @],
                                         NewNode(Parent)),
                        !.nodes_map = (Back :> id) @@ @,
                        !.k = @ + 1]
    /\ Text3Only

\* The word becomes a child and is no deeper than the node of its last
\* letter: children.erase(word.back()); delete new_child_node.
DropChild ==
    /\ InLoop
    /\ Valid
    /\ HasParent
    /\ Back \notin DOMAIN text3.nodes[Parent].children
    /\ Back \in DOMAIN text3.nodes_map
    /\ text3.nodes[text3.nodes_map[Back]].depth >= NewNode(Parent).depth
    /\ text3' = [text3 EXCEPT
                    !.nodes = Append(@, [NewNode(Parent) EXCEPT
                                            !.deleted = TRUE]),
                    !.k = @ + 1]
    /\ Text3Only

\* The nodes_map entries left by the loop that erases every node that is not
\* a leaf.
Leaves ==
    {c \in DOMAIN text3.nodes_map :
        text3.nodes[text3.nodes_map[c]].children = <<>>}

\* The loop over the leaves with node->depth >= best_depth: the leaf of the
\* greatest depth, and of the greatest key among those; 0 (nullptr) when
\* there is no leaf.
BestLeaf ==
    IF Leaves = {} THEN 0
    ELSE text3.nodes_map[
            CHOOSE c \in Leaves : \A d \in Leaves :
                LET nc == text3.nodes[text3.nodes_map[c]]
                    nd == text3.nodes[text3.nodes_map[d]]
                IN  \/ nc.depth > nd.depth
                    \/ nc.depth = nd.depth /\ KeyOrder(c) >= KeyOrder(d)]

\* The two loops over nodes_map and the two count lines.
WriteCounts ==
    /\ text3.pc = "words"
    /\ text3.k > Len(text3.words)
    /\ LET depth == IF BestLeaf = 0 THEN 0 ELSE text3.nodes[BestLeaf].depth
       IN  text3' = [text3 EXCEPT
                        !.pc = "chain",
                        !.nodes_map = [c \in Leaves |-> @[c]],
                        !.best_depth = depth, !.best_leaf = BestLeaf,
                        !.OUT = <<FormatNat(Len(text3.words)),
                                  FormatNat(Len(text3.words) - depth)>>]
    /\ Text3Only

RECURSIVE WordStackMutant(_)
WordStackMutant(node) ==
    <<text3.words[text3.nodes[node].word]>>
    \o (IF text3.nodes[node].parent = 0
        THEN <<>>
        ELSE WordStackMutant(text3.nodes[node].parent))

\* The words pushed on word_stack from node up to the root, top first:
\* each is what the vector holds now at the place the node's reference is
\* bound to.
RECURSIVE WordStack(_)
WordStack(node) ==
    (IF text3.nodes[node].parent = 0
     THEN <<>>
     ELSE WordStack(text3.nodes[node].parent))
    \o <<text3.words[text3.nodes[node].word]>>

\* The do-while from best_leaf and the loop that writes the stack.
WriteChain ==
    /\ text3.pc = "chain"
    /\ text3.best_leaf # 0
    /\ text3' = [text3 EXCEPT !.pc = "done",
                              !.OUT = @ \o WordStack(text3.best_leaf)]
    /\ Text3Only

\* best_leaf is nullptr: current_node->word reads through a null pointer,
\* and the program is killed before its output is flushed.
NullLeaf ==
    /\ text3.pc = "chain"
    /\ text3.best_leaf = 0
    /\ text3' = [text3 EXCEPT !.pc = "aborted", !.OUT = <<>>]
    /\ Text3Only

NextText3 ==
    \/ ReadWords
    \/ ReadNothing
    \/ InvalidWord
    \/ IgnoreWord
    \/ RootWord
    \/ KeepChild
    \/ DropChild
    \/ WriteCounts
    \/ WriteChain
    \/ NullLeaf

SpecText3 == InitText3 /\ [][NextText3]_vars

\* The whitespace-separated words of text3.in, and the positions of those
\* that begin and end with a letter.
InputWords == Words(text3.file, <<>>)
ValidWords ==
    {k \in 1 .. Len(InputWords) :
        IsAlpha(InputWords[k][1]) /\ IsAlpha(InputWords[k][Len(InputWords[k])])}

\* S, a set of positions, taken in input order, is a chain: each word begins
\* with the last letter of the one before.
IsChain(S) ==
    \A j \in 2 .. Cardinality(S) :
        LET before == InputWords[Ascending(S)[j - 1]]
        IN  InputWords[Ascending(S)[j]][1] = before[Len(before)]

\* The greatest length of a chain of valid words among the first n that
\* ends in one of the letters of a set; 0 when there is none.
LongestChain(n, letters) ==
    Maximum({0} \cup
        {Cardinality(S) : S \in
            {T \in SUBSET (ValidWords \cap (1 .. n)) :
                /\ T # {}
                /\ IsChain(T)
                /\ LET last == InputWords[Maximum(T)]
                   IN  last[Len(last)] \in letters}})

\* C23: after each word is processed nodes_map[c] is a node of the greatest
\* depth among the chains that end in c; best_depth is the greatest length
\* of a chain of valid input words; and the second line written is the
\* number of words of the input minus that length.
C23_LongestChain ==
    /\ text3.pc = "words" =>
        \A c \in {"a", "b"} :
            IF LongestChain(text3.k - 1, {c}) = 0
            THEN c \notin DOMAIN text3.nodes_map
            ELSE /\ c \in DOMAIN text3.nodes_map
                 /\ text3.nodes[text3.nodes_map[c]].depth
                        = LongestChain(text3.k - 1, {c})
    /\ text3.pc \in {"chain", "done"} =>
        /\ text3.best_depth = LongestChain(Len(InputWords), {"a", "b"})
        /\ text3.OUT[2] = FormatNat(Len(InputWords) - text3.best_depth)

\* The nodes from a node up to its root.
RECURSIVE Ancestry(_)
Ancestry(node) ==
    IF node = 0 THEN {} ELSE {node} \cup Ancestry(text3.nodes[node].parent)

\* C24: the words written after the two count lines are best_depth
\* non-empty words that occur in the input in the same relative order, each
\* after the first begins with the last letter of the one before, and none
\* was cleared or belongs to a deleted node.
C24_PrintedChain ==
    text3.pc = "done" =>
        LET printed == SubSeq(text3.OUT, 3, Len(text3.OUT))
        IN  /\ Len(printed) = text3.best_depth
            /\ \A j \in 1 .. Len(printed) : printed[j] # <<>>
            /\ \A j \in 2 .. Len(printed) :
                    printed[j][1] = printed[j - 1][Len(printed[j - 1])]
            /\ \E S \in SUBSET (1 .. Len(InputWords)) :
                    /\ Cardinality(S) = Len(printed)
                    /\ \A j \in 1 .. Len(printed) :
                            InputWords[Ascending(S)[j]] = printed[j]
            /\ \A n \in Ancestry(text3.best_leaf) :
                    /\ ~text3.nodes[n].deleted
                    /\ text3.words[text3.nodes[n].word] # <<>>

\* A chain of three words was written in a run that cleared a word and
\* deleted a node.
C24_Witness ==
    /\ text3.pc = "done"
    /\ Len(text3.OUT) = 5
    /\ \E k \in 1 .. Len(InputWords) : text3.words[k] = <<>>
    /\ \E n \in 1 .. Len(text3.nodes) : text3.nodes[n].deleted

\* C25: the words vector holds the whitespace-separated words of the
\* input, and the first line written is their number, with or without
\* whitespace after the last word.
C25_CountsInputWords ==
    /\ (text3.pc = "words" /\ text3.k = 1) => text3.words = InputWords
    /\ text3.pc \in {"chain", "done"} =>
        text3.OUT[1] = FormatNat(Len(InputWords))

----------------------------------------------------------------------------
\* src/Tasks/text4/text4.cpp.

\* Bounds of the model: LINE_SETTING, the paragraphs (lines) of text4.in and
\* the words of a paragraph.
MaxLineSetting == 5
MaxParagraphs == 1
MaxParagraphWords == 4

\* The words offered for a paragraph.
ShortWords == {<<"a">>, <<"b", "b", "b">>}

\* k space characters.
Spaces(k) == [n \in 1 .. k |-> " "]

\* The justification loop from words[j] to words[last - 1] and the
\* io.OUT << words[i - 1] that follows it, last being i - 1.
RECURSIVE JustifiedMutant(_, _, _, _, _)
JustifiedMutant(words, j, last, space_between_words, more_space_instances) ==
    IF j >= last
    THEN words[last]
    ELSE words[j] \o Spaces(space_between_words)
            \o JustifiedMutant(words, j + 1, last, space_between_words,
                               more_space_instances)

RECURSIVE Justified(_, _, _, _, _)
Justified(words, j, last, space_between_words, more_space_instances) ==
    IF j >= last
    THEN words[last]
    ELSE words[j] \o <<" ">> \o Spaces(space_between_words)
            \o (IF more_space_instances > 0 THEN <<" ">> ELSE <<>>)
            \o Justified(words, j + 1, last, space_between_words,
                         IF more_space_instances > 0
                         THEN more_space_instances - 1 ELSE 0)

InitText4 ==
    /\ BfsNotRunning
    /\ cautbin = NotRunning
    /\ ciur = NotRunning
    /\ lgput = NotRunning
    /\ euclid3 = NotRunning
    /\ divmul = NotRunning
    /\ text3 = NotRunning
    /\ text4 = [pc |-> "start", LINE_SETTING |-> 0, lines |-> <<>>,
                words |-> <<>>, i |-> 0, current_line_char_length |-> 0,
                current_line_start_index |-> 0, final_word_printed |-> FALSE,
                OUT |-> <<>>, paragraph_start |-> 0, justified |-> {}]
    /\ adunare = NotRunning

Text4Only == UNCHANGED <<pc, inputKind, ioVars, headerVars, edge_i, graphVars,
                         bfsVars, cautbin, ciur, lgput, euclid3, divmul, text3,
                         adunare>>

\* buffer >> LINE_SETTING; buffer.ignore().  lines holds what the getline
\* calls of the loop will return: the lines of the file, and one more, empty,
\* when the file ends with a newline (eofbit is set only by the getline that
\* finds nothing).
ReadSetting ==
    /\ text4.pc = "start"
    /\ \E setting \in 1 .. MaxLineSetting, count \in 0 .. MaxParagraphs,
          newline_at_end \in BOOLEAN :
        \E paragraphs \in [1 .. count ->
                UNION {[1 .. n -> ShortWords] : n \in 0 .. MaxParagraphWords}] :
            text4' = [text4 EXCEPT
                        !.pc = "getline", !.LINE_SETTING = setting,
                        !.lines = [p \in 1 .. count |->
                                        Joined(paragraphs[p], <<>>)]
                                  \o (IF newline_at_end THEN <<<<>>>> ELSE <<>>)]
    /\ Text4Only

\* getline(buffer, line), the words of the line behind words[0] = "", and
\* the initial values of the three locals.  For a line without a word
\* words[1] is read past the end of the vector: the length read is any
\* value.  paragraph_start is the number of lines written before (history).
ReadLine ==
    /\ text4.pc = "getline"
    /\ text4.lines # <<>>
    /\ LET words == <<<<>>>> \o Words(Head(text4.lines), <<>>)
       IN  \E length \in IF Len(words) > 1 THEN {Len(words[2])}
                         ELSE 0 .. MaxLineSetting :
            text4' = [text4 EXCEPT
                        !.pc = "for", !.lines = Tail(@), !.words = words,
                        !.i = 2, !.current_line_char_length = length,
                        !.current_line_start_index = 1,
                        !.final_word_printed = FALSE,
                        !.paragraph_start = Len(text4.OUT)]
    /\ Text4Only

\* words is kept with words[0] at position 1: At(j) is the source's words[j].
At(j) == text4.words[j + 1]
Size == Len(text4.words)
InFor == text4.pc = "for" /\ text4.i < Size
Overflows ==
    text4.current_line_char_length + Len(At(text4.i)) + 1 > text4.LINE_SETTING

\* The last word fits: the words of the line, a blank after each but the
\* last; break.
LastWordFits ==
    /\ InFor
    /\ text4.i + 1 = Size
    /\ ~Overflows
    /\ text4' = [text4 EXCEPT
                    !.pc = "after",
                    !.OUT = Append(@, Justified(text4.words,
                                text4.current_line_start_index + 1,
                                text4.i + 1, 0, 0)),
                    !.final_word_printed = TRUE]
    /\ Text4Only

\* The word does not fit and the line holds one word: that word alone.
SingleWordLine ==
    /\ InFor
    /\ Overflows
    /\ text4.i = text4.current_line_start_index + 1
    /\ text4' = [text4 EXCEPT
                    !.OUT = Append(@, At(text4.current_line_start_index)),
                    !.current_line_start_index = text4.i,
                    !.current_line_char_length = Len(At(text4.i)),
                    !.i = @ + 1]
    /\ Text4Only

\* The word does not fit and the line holds two words or more: the line
\* is written with the blanks spread over it.
JustifiedLine ==
    /\ InFor
    /\ Overflows
    /\ text4.i # text4.current_line_start_index + 1
    /\ LET room == text4.LINE_SETTING - text4.current_line_char_length + 1
           count == text4.i - text4.current_line_start_index
       IN  text4' = [text4 EXCEPT
                        !.OUT = Append(@, Justified(text4.words,
                                    text4.current_line_start_index + 1,
                                    text4.i, room \div count, room % count)),
                        !.justified = @ \cup {Len(text4.OUT) + 1},
                        !.current_line_start_index = text4.i,
                        !.current_line_char_length = Len(At(text4.i)) + 1,
                        !.i = @ + 1]
    /\ Text4Only

\* The word fits and is not the last: current_line_char_length grows.
WordFits ==
    /\ InFor
    /\ text4.i + 1 # Size
    /\ ~Overflows
    /\ text4' = [text4 EXCEPT
                    !.current_line_char_length = @ + Len(At(text4.i)) + 1,
                    !.i = @ + 1]
    /\ Text4Only

\* The for loop is over without the break.
LeaveFor ==
    /\ text4.pc = "for"
    /\ text4.i >= Size
    /\ text4' = [text4 EXCEPT !.pc = "after"]
    /\ Text4Only

\* if (final_word_printed == false) io.OUT << words.back() << "\n".
EndParagraph ==
    /\ text4.pc = "after"
    /\ text4' = [text4 EXCEPT
                    !.pc = "getline",
                    !.OUT = IF text4.final_word_printed THEN @
                            ELSE Append(@, text4.words[Size])]
    /\ Text4Only

\* buffer.eof(): return 0.
ReturnFromText4 ==
    /\ text4.pc = "getline"
    /\ text4.lines = <<>>
    /\ text4' = [text4 EXCEPT !.pc = "done"]
    /\ Text4Only

NextText4 ==
    \/ ReadSetting
    \/ ReadLine
    \/ LastWordFits
    \/ SingleWordLine
    \/ JustifiedLine
    \/ WordFits
    \/ LeaveFor
    \/ EndParagraph
    \/ ReturnFromText4

SpecText4 == InitText4 /\ [][NextText4]_vars

\* The words of the paragraph read last, and the lines written for it.
ParagraphWords == SubSeq(text4.words, 2, Size)
ParagraphLines == SubSeq(text4.OUT, text4.paragraph_start + 1, Len(text4.OUT))

\* C26: when no word is longer than LINE_SETTING, no line written is longer
\* than LINE_SETTING and every line written by the justification branch is
\* exactly LINE_SETTING characters long.
C26_LinesFillTheSetting ==
    (/\ text4.pc \notin {"off", "start"}
     /\ \A j \in 1 .. Len(ParagraphWords) :
            Len(ParagraphWords[j]) <= text4.LINE_SETTING) =>
        \A n \in text4.paragraph_start + 1 .. Len(text4.OUT) :
            /\ Len(text4.OUT[n]) <= text4.LINE_SETTING
            /\ n \in text4.justified =>
                    Len(text4.OUT[n]) = text4.LINE_SETTING

\* The words of a sequence of lines, in order.
RECURSIVE WordsOfLines(_)
WordsOfLines(lines) ==
    IF lines = <<>> THEN <<>>
    ELSE Words(Head(lines), <<>>) \o WordsOfLines(Tail(lines))

\* C27: for every paragraph with at least one word, the words of the lines
\* written for it, read in order, are the paragraph's words.
C27_WordsPreserved ==
    (text4.pc \in {"getline", "done"} /\ Len(ParagraphWords) >= 1) =>
        WordsOfLines(ParagraphLines) = ParagraphWords

\* A paragraph of four words was written as a justified line, a line of one
\* word and the last word, which did not fit.
C27_Witness ==
    /\ text4.pc = "getline"
    /\ Len(ParagraphWords) = 4
    /\ Len(ParagraphLines) = 3
    /\ text4.paragraph_start + 1 \in text4.justified
    /\ ~text4.final_word_printed

----------------------------------------------------------------------------
\* src/A+B (adunare)/adunare.cpp.

\* Bound of the model: the small numbers offered for adunare.in.
MaxAddend == 3

\* The numbers offered: the small ones and two with ten digits.
Addends == (-MaxAddend .. MaxAddend) \cup {-1000000000, 1000000000}

\* The files offered: one number or two, a blank or a newline between them,
\* and nothing or a newline at the end.
Files ==
    {FormatInt(a) \o trailer : a \in Addends, trailer \in Trailers}
    \cup {FormatInt(a) \o separator \o FormatInt(b) \o trailer :
            a \in Addends, b \in Addends, separator \in {<<" ">>, <<"\n">>},
            trailer \in Trailers}

\* io.IN >> a >> b: the k-th extraction; one that finds no number stores 0.
Extracted(chars, k) ==
    IF k <= Len(Words(chars, <<>>)) THEN ParseInt(Words(chars, <<>>)[k]) ELSE 0

\* fscanf(io.IN, "%d %d", &a, &b): the k-th conversion; one that finds no
\* number leaves the variable as it was, not initialised.
Scanned(chars, k, uninitialised) ==
    IF k <= Len(Words(chars, <<>>)) THEN ParseInt(Words(chars, <<>>)[k])
    ELSE uninitialised

\* fprintf(io.OUT, "%d\n", n).
FprintfMutant(n) == FormatNat(Abs(n)) \o <<"\n">>

Fprintf(n) == FormatInt(n) \o <<"\n">>

\* What Add() writes to adunare.out: io.OUT << a + b << std::endl.
Add(chars) == FormatInt(Extracted(chars, 1) + Extracted(chars, 2)) \o <<"\n">>

\* What Add_Legacy() writes to adunare.out.
Add_Legacy(chars, uninitialised) ==
    Fprintf(Scanned(chars, 1, uninitialised) + Scanned(chars, 2, uninitialised))

InitAdunare ==
    /\ BfsNotRunning
    /\ cautbin = NotRunning
    /\ ciur = NotRunning
    /\ lgput = NotRunning
    /\ euclid3 = NotRunning
    /\ divmul = NotRunning
    /\ text3 = NotRunning
    /\ text4 = NotRunning
    /\ \E chars \in Files :
        adunare = [pc |-> "start", file |-> chars, branch |-> "", OUT |-> <<>>]

AdunareOnly == UNCHANGED <<pc, inputKind, ioVars, headerVars, edge_i, graphVars,
                           bfsVars, cautbin, ciur, lgput, euclid3, divmul,
                           text3, text4>>

\* std::rand() % 2 is 1: Add().
CallAdd ==
    /\ adunare.pc = "start"
    /\ adunare' = [adunare EXCEPT !.pc = "return", !.branch = "Add",
                                  !.OUT = Add(adunare.file)]
    /\ AdunareOnly

\* std::rand() % 2 is 0: Add_Legacy().
CallAddLegacy ==
    /\ adunare.pc = "start"
    /\ \E uninitialised \in Addends :
        adunare' = [adunare EXCEPT !.pc = "return", !.branch = "Add_Legacy",
                                   !.OUT = Add_Legacy(adunare.file,
                                                      uninitialised)]
    /\ AdunareOnly

\* return 0.
ReturnFromAdunare ==
    /\ adunare.pc = "return"
    /\ adunare' = [adunare EXCEPT !.pc = "done"]
    /\ AdunareOnly

NextAdunare ==
    \/ CallAdd
    \/ CallAddLegacy
    \/ ReturnFromAdunare

SpecAdunare == InitAdunare /\ [][NextAdunare]_vars

\* C28: for a file that holds two integers a and b, Add and Add_Legacy write
\* the same single line, the decimal form of a + b, so what main writes does
\* not depend on the branch taken.
C28_BranchesWriteTheSame ==
    (adunare.pc \in {"return", "done"} /\ Len(Words(adunare.file, <<>>)) = 2) =>
        /\ \A uninitialised \in Addends :
            Add(adunare.file) = Add_Legacy(adunare.file, uninitialised)
        /\ adunare.OUT = Add(adunare.file)
        /\ ParseInts(adunare.OUT)
            = <<ParseInts(adunare.file)[1] + ParseInts(adunare.file)[2]>>
        /\ Len(SelectSeq(adunare.OUT, LAMBDA c : c = "\n")) = 1
        /\ adunare.OUT[Len(adunare.OUT)] = "\n"

\* Add_Legacy has written a negative sum of two numbers.
C28_Witness ==
    /\ adunare.pc = "done"
    /\ adunare.branch = "Add_Legacy"
    /\ Len(Words(adunare.file, <<>>)) = 2
    /\ ParseInts(adunare.OUT)[1] = -1000000003

----------------------------------------------------------------------------
\* src/Algorithms/bfs_breadth-first-search/bfs.cpp: the queue of
\* Graph::BreadthFirstSearch.

\* The distances of the vertices in the queue, front first.
QueueDistances == [k \in 1 .. Len(vertex_queue) |-> distance[vertex_queue[k]]]

\* C29: at every step of BreadthFirstSearch every vertex in the queue has a
\* distance other than -1, the distances in the queue do not decrease from
\* the front to the back, and the distance at the back is at most the
\* distance at the front plus 1.
C29_QueueIsLevelOrdered ==
    pc \in {"while", "for"} =>
        /\ \A k \in 1 .. Len(vertex_queue) : QueueDistances[k] # UNKNOWN
        /\ \A k \in 1 .. Len(vertex_queue) - 1 :
            QueueDistances[k] <= QueueDistances[k + 1]
        /\ vertex_queue # <<>> =>
            QueueDistances[Len(vertex_queue)] <= QueueDistances[1] + 1

\* In the inner loop the queue holds vertices of two levels: the front at
\* the distance of current_vertex, the back one further.
C29_Witness ==
    /\ pc = "for"
    /\ Len(vertex_queue) >= 2
    /\ QueueDistances[1] = distance[current_vertex]
    /\ QueueDistances[Len(vertex_queue)] = distance[current_vertex] + 1

============================================================================
